---- MODULE Spec2Model ----
(***************************************************************************)
(* State-machine model of the SMTP client session (src/src/client/         *)
(* session.js) on top of the SMTP client (src/src/client.js).              *)
(*                                                                         *)
(* JavaScript runs one handler at a time, so every handler is one atomic   *)
(* action.  A handler and the calls nested in it (command -> emit ->       *)
(* proceed -> client.command -> _write ...) are written as operators that  *)
(* take the whole program state as a record w and return the new one; an   *)
(* action applies one handler to the current state.                        *)
(*                                                                         *)
(* JavaScript values: `undefined` is <<>>, a defined value v is <<v>>.     *)
(* An Error is the sequence of the messages of its cause chain, outermost  *)
(* first; new VError(cause, msg) puts msg in front of the cause's chain.   *)
(***************************************************************************)
EXTENDS Integers, Sequences, FiniteSets

VARIABLES
    state,          \* session.state, the record of session.js:126 / :182
    nListeners,     \* session.listeners(ev).length for the checkpoint events
    isTls,          \* uri.protocol() == 'smtps'
    cps,            \* the closures created by emit(): one per checkpoint
    proms,          \* the promises returned by client.connect()/command()
    socket,         \* client.socket: 0 when absent, else the socket's id
    connectPromise, \* 0, or the promise client.connect was replaced with
    needsDrain,     \* client.needsDrain
    sending,        \* client.sending
    lastEvent,      \* history: the last 'end' or 'error' event emitted
    nTerminal,      \* history: 'end' and 'error' events since the last start()
    nClose,         \* history: number of client.close() calls
    nStart,         \* history: number of start() calls
    nCommand,       \* history: number of command() calls
    nRepeat,        \* history: number of repeated callback calls
    clientTimeout,  \* client.timeout
    parsers,        \* the reply parser of each promise: its timer and listeners
    sockets,        \* the socket of each connect promise: what happened to it
    lineParser,     \* one call of parse(inputStream): its closure variables
    inputStream,    \* the stream handed to parse(): what it has delivered
    encoder,        \* a DotEncoder: its fields and what it has pushed
    decoder,        \* a DotDecoder: its fields and what it has pushed
    dataPipe,       \* history: the bytes written to the encoder and to the decoder
    cmdText,        \* a command line and what parseCommandLine / serializeCommand made of it
    replyText,      \* reply lines and what parseReplyLine / parseReply / serializeReply made of them
    construction,   \* a URI and what the session constructor and start() made of it
    wire,           \* a connected client: its writes, its socket and the readers on it
    handshake       \* a connected client and one call of upgrade()

sessionVars == <<state, nListeners, isTls, cps, proms, socket, connectPromise,
                 needsDrain, sending, lastEvent, nTerminal, nClose, nStart,
                 nCommand, nRepeat>>
clientVars  == <<clientTimeout, parsers, sockets>>

parserVars  == <<lineParser, inputStream>>

dotVars     == <<encoder, decoder, dataPipe>>

textVars    == <<cmdText, replyText>>

ioVars      == <<construction, wire, handshake>>

vars == <<sessionVars, clientVars, parserVars, dotVars, textVars, ioVars>>

(***************************************************************************)
(* Bounds of the model.                                                    *)
(***************************************************************************)
MaxScenario == 4   \* size of a scenario: see ScenarioSize
MaxRepeats  == 1   \* calls of a callback by an observer that called it before

Checkpoints == {"connect", "command", "reply"}
\* The command() calls of the model, in the order the session's user makes
\* them: a Command and the timeout argument (0: none given).
CommandCalls == <<[cmd |-> "EHLO", timeout |-> 0], [cmd |-> "NOOP", timeout |-> 500]>>
NextCommandCall == CommandCalls[(nCommand % Len(CommandCalls)) + 1]

Undefined  == <<>>
Def(v)     == <<v>>
Truthy(x)  == x # <<>> /\ x[1] = TRUE

\* new VError(cause, msg): an Error cause is kept as the cause; a string in
\* the first position is taken as the format string and is the whole message.
JSStrings == {"error"}
VError(cause, msg) ==
    IF Len(cause) = 1 /\ cause[1] \in JSStrings THEN cause ELSE <<msg>> \o cause

\* The whole program state as one record, and its assignment to the variables.
W ==
    [state |-> state, nListeners |-> nListeners, isTls |-> isTls, cps |-> cps,
     proms |-> proms, socket |-> socket, connectPromise |-> connectPromise,
     needsDrain |-> needsDrain, sending |-> sending, lastEvent |-> lastEvent,
     nTerminal |-> nTerminal, nClose |-> nClose, nStart |-> nStart,
     nCommand |-> nCommand, nRepeat |-> nRepeat]

Becomes(w) ==
    /\ state' = w.state
    /\ nListeners' = w.nListeners
    /\ isTls' = w.isTls
    /\ cps' = w.cps
    /\ proms' = w.proms
    /\ socket' = w.socket
    /\ connectPromise' = w.connectPromise
    /\ needsDrain' = w.needsDrain
    /\ sending' = w.sending
    /\ lastEvent' = w.lastEvent
    /\ nTerminal' = w.nTerminal
    /\ nClose' = w.nClose
    /\ nStart' = w.nStart
    /\ nCommand' = w.nCommand
    /\ nRepeat' = w.nRepeat
    /\ UNCHANGED <<clientVars, parserVars, dotVars, textVars, ioVars>>

(***************************************************************************)
(* Program constants.                                                      *)
(***************************************************************************)
DefaultVetoTimeout == 3000   \* session.js:252
DefaultPort        == 25     \* session.js:103
DefaultTimeout     == 300000 \* client.js:38

(***************************************************************************)
(* The client, as far as the session drives it (src/src/client.js).        *)
(* A promise is a record: op and arg say which call returned it, sock is   *)
(* the socket its reply parser listens on, tcp says whether the socket of  *)
(* a connect has connected, wr is the state of the command's write         *)
(* ("tick": _doWrite is queued with process.nextTick, "sent": written to   *)
(* the socket, "refused": _write rejected it, "none": no write), st is the *)
(* promise's state, and waiters counts the then/catch pairs the session    *)
(* attached that have not run yet.  cp is history: the checkpoint whose    *)
(* continuation made the call.                                             *)
(***************************************************************************)
Promise(op, arg, timeout, cp, sock, wr, st, err) ==
    [op |-> op, arg |-> arg, timeout |-> timeout, cp |-> cp, sock |-> sock,
     tcp |-> FALSE, wr |-> wr, st |-> st, reply |-> "", err |-> err, waiters |-> 1]

\* SMTPClient.prototype.connect, up to the return of the promise.  Once a
\* socket has connected, this.connect is the function that returns the first
\* connectPromise again.
clientConnect(w, c) ==
    IF w.connectPromise # 0
    THEN [w EXCEPT !.proms[w.connectPromise].waiters = @ + 1]
    ELSE [w EXCEPT !.proms = Append(@,
             Promise("connect", "", 0, c, Len(w.proms) + 1, "none", "pending", <<>>))]

\* SMTPClient.prototype._write, up to the return of its promise: what becomes
\* of the write.
write(w) ==
    IF w.socket = 0 THEN "none"
    ELSE IF w.needsDrain \/ w.sending THEN "refused"
    ELSE "tick"

\* SMTPClient.prototype.command, up to the return of the promise: the reply
\* parser is attached to the socket, then _write is called and its promise
\* dropped.
clientCommand(w, c, command, timeout) ==
    IF w.socket = 0
    THEN [w EXCEPT !.proms = Append(@,
             Promise("command", command, timeout, c, 0, "none", "rejected",
                     <<"Client is not connected.">>))]
    ELSE [w EXCEPT !.proms = Append(@,
             Promise("command", command, timeout, c, w.socket, write(w), "pending", <<>>))]

\* SMTPClient.prototype.close
clientClose(w) ==
    IF w.socket # 0
    THEN [w EXCEPT !.socket = 0, !.nClose = @ + 1]
    ELSE [w EXCEPT !.nClose = @ + 1]

(***************************************************************************)
(* The session (src/src/client/session.js).                                *)
(***************************************************************************)
\* The state record of the constructor, and the one start() builds.
StateRecord(stage) ==
    [stage |-> stage, ended |-> Undefined, connected |-> Undefined,
     secure |-> Undefined, error |-> Undefined, connect |-> Undefined,
     lastCommand |-> Undefined, lastCommandOptions |-> Undefined,
     lastReply |-> Undefined]

NoEvent == [type |-> "none", err |-> <<>>]

\* emit() of an event that is no checkpoint ('end', 'error'): EventEmitter's
\* emit.  The session's user listens to 'error' (an 'error' event nobody
\* listens to is thrown by EventEmitter).
emitEvent(w, type, err) ==
    [w EXCEPT !.lastEvent = [type |-> type, err |-> err], !.nTerminal = @ + 1]

\* Whether the name `self` is bound where end() and abort() use it.  It is a
\* local of start(), command() and emit() only and the file is in strict
\* mode, so evaluating `self` throws a ReferenceError (and where a runtime
\* has a global of that name, it has no `state` and the assignment to
\* self.state.connected throws a TypeError).
SelfIsBound == FALSE

\* try { self.state.connected = ...; this.client.close(); } catch (ignored) {}
\* The assignment throws before close() is reached and the catch swallows it.
tryClose(w) ==
    IF SelfIsBound THEN clientClose(w) ELSE w

\* SMTPClientSession.prototype.end
end(w) ==
    IF Truthy(w.state.ended) THEN w
    ELSE LET w1 == [w EXCEPT !.state.ended = Def(TRUE)]
             w2 == IF Truthy(w1.state.connected) THEN tryClose(w1) ELSE w1
         IN emitEvent(w2, "end", <<>>)

\* abort() without its first line, to tell whether a property depends on
\* abort() being a no-op on an ended session.
abortAgain(w, err) ==
    LET w1 == [w EXCEPT !.state.ended = Def(TRUE), !.state.error = err]
        w2 == IF Truthy(w1.state.connected) THEN tryClose(w1) ELSE w1
        e  == IF err = Undefined THEN <<"Unknown reason.">> ELSE err
    IN emitEvent(w2, "error", VError(e, "Session aborted"))

\* SMTPClientSession.prototype.abort
abort(w, err) ==
    IF Truthy(w.state.ended) THEN w
    ELSE LET w1 == [w EXCEPT !.state.ended = Def(TRUE), !.state.error = err]
             w2 == IF Truthy(w1.state.connected) THEN tryClose(w1) ELSE w1
             e  == IF err = Undefined THEN <<"Unknown reason.">> ELSE err
         IN emitEvent(w2, "error", VError(e, "Session aborted"))

(***************************************************************************)
(* A checkpoint is the closure one emit('connect' | 'command' | 'reply')   *)
(* creates: listeners is the rest of the copied listener array, timer is   *)
(* the variable `timer` ("armed": a running timeout, "cleared": a handle   *)
(* that clearTimeout() stopped, still truthy, "undefined"), timeout is     *)
(* the delay given to setTimeout, onReady the continuation.                *)
(* The other fields are history.  n observers were registered; seen is     *)
(* what the first observer found in session.state when emit() called it    *)
(* (of the fields that belong to the event, see Seen); invoked             *)
(* lists the observers called so far; cbs[k] counts the calls observer k   *)
(* made to its callback; cbErr says that one of them carried an error,     *)
(* late that one of them returned early (no timer, or session ended);      *)
(* vetoedAt / expiredAt is the number of observers invoked when the veto   *)
(* branch / the timer function ran (0: it did not); proceeded counts the   *)
(* calls of onReady, called the calls of client.connect() /                *)
(* client.command() made for it.                                           *)
(* An emit without listeners creates no closure and has no record: the     *)
(* calls it makes carry 0 as their checkpoint.                             *)
(***************************************************************************)
Seen(st, eventName, onReady) ==
    CASE eventName = "command" -> <<st.lastCommand>>
      [] eventName = "reply" /\ onReady.k = "default" ->
             <<st.connected, st.secure, st.connect, st.lastReply>>
      [] OTHER -> <<>>

Checkpoint(w, eventName, firstArg, onReady, listeners, timeout) ==
    [ev |-> eventName, arg |-> firstArg, onReady |-> onReady,
     listeners |-> listeners, timer |-> "armed", timeout |-> timeout,
     n |-> Len(listeners), seen |-> Seen(w.state, eventName, onReady),
     invoked |-> <<>>,
     cbs |-> [k \in 1..Len(listeners) |-> 0], cbErr |-> FALSE, late |-> FALSE,
     vetoedAt |-> 0, expiredAt |-> 0, proceeded |-> 0, called |-> 0]

\* A continuation handed to emit(): start()'s _next ("next"), command()'s
\* function that sends the command ("send"), the empty function command()
\* hands over with a reply ("empty"); "default" is the empty function emit()
\* takes when it is given none.
Continuation(k, command, timeout) == [k |-> k, command |-> command, timeout |-> timeout]
EmptyContinuation == Continuation("empty", "", 0)
DefaultContinuation == Continuation("default", "", 0)

VetoMessage(ev) ==
    CASE ev = "connect" -> "Event listener raised a veto in reply to 'connect' event"
      [] ev = "command" -> "Event listener raised a veto in reply to 'command' event"
      [] ev = "reply"   -> "Event listener raised a veto in reply to 'reply' event"

ExpiredMessage(ev) ==
    CASE ev = "connect" -> "Veto expired when waiting on listeners for 'connect' event."
      [] ev = "command" -> "Veto expired when waiting on listeners for 'command' event."
      [] ev = "reply"   -> "Veto expired when waiting on listeners for 'reply' event."

\* start(): _next, up to the return of client.connect(); then and catch are
\* attached to the promise it returns.
next(w, c) ==
    clientConnect(IF c = 0 THEN w ELSE [w EXCEPT !.cps[c].called = @ + 1], c)

\* command(): the continuation handed to emit('command'), up to the return
\* of client.command().
sendCommand(w, c, command, timeout) ==
    clientCommand(IF c = 0 THEN w ELSE [w EXCEPT !.cps[c].called = @ + 1],
                  c, command, timeout)

\* onReady.call() for checkpoint c.
callReady(w, c, onReady) ==
    LET w1 == IF c = 0 THEN w ELSE [w EXCEPT !.cps[c].proceeded = @ + 1]
    IN CASE onReady.k = "next" -> next(w1, c)
         [] onReady.k = "send" -> sendCommand(w1, c, onReady.command, onReady.timeout)
         [] OTHER              -> w1

\* The same with listeners.pop() for listeners.shift(), to tell whether a
\* property depends on the order of the observers.
callLastListener(w, c) ==
    LET l == w.cps[c].listeners
    IN [w EXCEPT !.cps[c].listeners = SubSeq(l, 1, Len(l) - 1),
                 !.cps[c].invoked = Append(@, l[Len(l)])]

\* nextListener.call(this, firstArg, callback) for the head of the listeners
\* still to call.
callNextListener(w, c) ==
    [w EXCEPT !.cps[c].listeners = Tail(@),
              !.cps[c].invoked = Append(@, Head(w.cps[c].listeners))]

\* SMTPClientSession.prototype.emit for a checkpoint event.  timeout is
\* options.timeout, 0 when absent.
emit(w, eventName, firstArg, onReady, timeout) ==
    LET listeners == [k \in 1..w.nListeners[eventName] |-> k]
        c == Len(w.cps) + 1
    IN IF Len(listeners) = 0
       THEN callReady(w, 0, onReady)
       ELSE callNextListener([w EXCEPT !.cps = Append(@,
                Checkpoint(w, eventName, firstArg, onReady, listeners,
                    IF timeout <= 0 THEN DefaultVetoTimeout ELSE timeout))], c)

\* emit(): callback, called by observer k of checkpoint c with err (<<>> when
\* called without).
callback(w, c, k, err) ==
    LET cp == w.cps[c]
        w0 == [w EXCEPT !.cps[c].cbs[k] = @ + 1,
                        !.cps[c].cbErr = @ \/ err # <<>>,
                        !.nRepeat = IF cp.cbs[k] > 0 THEN @ + 1 ELSE @]
    IN IF cp.timer = "undefined"
       THEN [w0 EXCEPT !.cps[c].late = TRUE]
       ELSE IF Truthy(w.state.ended)
       THEN [w0 EXCEPT !.cps[c].timer = "undefined", !.cps[c].late = TRUE]
       ELSE IF err # <<>>
       THEN abort([w0 EXCEPT !.cps[c].timer = "cleared",
                             !.cps[c].vetoedAt = Len(cp.invoked)],
                  VError(err, VetoMessage(cp.ev)))
       ELSE IF Len(cp.listeners) = 0
       THEN callReady([w0 EXCEPT !.cps[c].timer = "undefined"], c, cp.onReady)
       ELSE callNextListener(w0, c)

\* The timer function with clearTimeout(timer) for timer = undefined (what
\* the veto branch of callback does), to tell whether a property depends on
\* the timer function resetting the variable.
onVetoTimeoutKeepingTimer(w, c) ==
    abort([w EXCEPT !.cps[c].timer = "cleared",
                    !.cps[c].expiredAt = Len(w.cps[c].invoked)],
          VError(<<>>, ExpiredMessage(w.cps[c].ev)))

\* emit(): the function handed to setTimeout.
onVetoTimeout(w, c) ==
    abort([w EXCEPT !.cps[c].timer = "undefined",
                    !.cps[c].expiredAt = Len(w.cps[c].invoked)],
          VError(<<>>, ExpiredMessage(w.cps[c].ev)))

\* SMTPClientSession.prototype.start
start(w) ==
    emit([w EXCEPT !.state = StateRecord("connect"), !.nStart = @ + 1,
                   !.nTerminal = 0],
         "connect", "uri", Continuation("next", "", 0), 0)

\* SMTPClientSession.prototype.command with a Command object.
command(w, cmd, timeout) ==
    emit([w EXCEPT !.state.lastCommand = Def(cmd),
                   !.state.lastCommandOptions = Def("{}"),
                   !.nCommand = @ + 1],
         "command", cmd, Continuation("send", cmd, timeout), timeout)

\* start(): the function handed to then().
onConnected(w, reply) ==
    emit([w EXCEPT !.state.connected = Def(TRUE),
                   !.state.secure = Def(w.isTls),
                   !.state.connect = Def([hostname |-> "host", port |-> DefaultPort,
                        secure |-> w.isTls,
                        tlsOpts |-> IF w.isTls THEN Def("{}") ELSE Undefined,
                        reply |-> reply]),
                   !.state.lastReply = Def(reply)],
         "reply", reply, DefaultContinuation, 0)

\* start(): the function handed to catch().
onConnectFailed(w, err) ==
    abort(w, VError(err, "Unable to connect"))

\* command(): the function handed to then().
onReply(w, reply, timeout) ==
    emit(w, "reply", reply, EmptyContinuation, timeout)

\* command(): the function handed to catch().  abort() takes one parameter:
\* the string 'error' is its err and the VError is dropped.
onCommandFailed(w, err) ==
    abort(w, <<"error">>)

(***************************************************************************)
(* Settling a promise runs the handlers the session attached to it.        *)
(***************************************************************************)
RECURSIVE runHandlers(_, _)
runHandlers(w, p) ==
    LET pr == w.proms[p]
        w1 == [w EXCEPT !.proms[p].waiters = @ - 1]
    IN IF pr.waiters = 0 THEN w
       ELSE runHandlers(
                CASE pr.op = "connect" /\ pr.st = "resolved" -> onConnected(w1, pr.reply)
                  [] pr.op = "connect" /\ pr.st = "rejected" -> onConnectFailed(w1, pr.err)
                  [] pr.op = "command" /\ pr.st = "resolved" -> onReply(w1, pr.reply, pr.timeout)
                  [] pr.op = "command" /\ pr.st = "rejected" -> onCommandFailed(w1, pr.err),
                p)

resolve(w, p, reply) ==
    runHandlers([w EXCEPT !.proms[p].st = "resolved", !.proms[p].reply = reply], p)

reject(w, p, err) ==
    runHandlers([w EXCEPT !.proms[p].st = "rejected", !.proms[p].err = err], p)

\* What the server sends on socket s: the greeting 220 to begin with, then
\* 250 replies.
Reply(w, s) == IF w.proms[s].st = "pending" THEN "220" ELSE "250"

\* A 'data' event of socket s with one complete reply: every reply parser
\* attached to s resolves its promise, in the order they were attached.
RECURSIVE onData(_, _, _, _)
onData(w, s, reply, p) ==
    IF p > Len(w.proms) THEN w
    ELSE onData(IF w.proms[p].st = "pending" /\ w.proms[p].sock = s
                THEN resolve(w, p, reply) ELSE w,
                s, reply, p + 1)

\* _write(): _doWrite, run by process.nextTick.  flushed is what
\* socket.write() returns.  Without a socket (close() was called in between)
\* this.socket.write throws.
doWrite(w, p, flushed) ==
    IF w.socket = 0 THEN [w EXCEPT !.proms[p].wr = "failed"]
    ELSE [w EXCEPT !.proms[p].wr = "sent", !.needsDrain = ~flushed]

\* connect(): _onConnect
onConnect(w, p) ==
    [w EXCEPT !.proms[p].tcp = TRUE, !.socket = p, !.connectPromise = p]

(***************************************************************************)
(* Scheduling.  Callbacks queued with process.nextTick run before promise  *)
(* handlers, and both run before any timer or socket event.                *)
(***************************************************************************)
TickPending  == \E p \in 1..Len(proms) : proms[p].wr = "tick"
MicroPending == \E p \in 1..Len(proms) : proms[p].st # "pending" /\ proms[p].waiters > 0
Quiet        == ~TickPending /\ ~MicroPending

(***************************************************************************)
(* Actions: calls of the session's user and observers, timers, socket      *)
(* events.                                                                 *)
(***************************************************************************)
\* The size of a scenario: the observers registered, the start() and
\* command() calls made so far, and one for a session over TLS.
ScenarioSize ==
    nListeners["connect"] + nListeners["command"] + nListeners["reply"]
        + nStart + nCommand + (IF isTls THEN 1 ELSE 0)

Init ==
    /\ state = StateRecord("")
    /\ nListeners \in [Checkpoints -> 0..MaxScenario]
    /\ isTls \in BOOLEAN
    /\ nStart = 0
    /\ nCommand = 0
    /\ ScenarioSize <= MaxScenario
    /\ cps = <<>>
    /\ proms = <<>>
    /\ socket = 0
    /\ connectPromise = 0
    /\ needsDrain = FALSE
    /\ sending = FALSE
    /\ lastEvent = NoEvent
    /\ nTerminal = 0
    /\ nClose = 0
    /\ nRepeat = 0
    /\ clientTimeout = DefaultTimeout
    /\ parsers = <<>>
    /\ sockets = <<>>
    /\ lineParser = <<>>
    /\ inputStream = <<>>
    /\ encoder = <<>> /\ decoder = <<>> /\ dataPipe = <<>>
    /\ cmdText = <<>> /\ replyText = <<>>
    /\ construction = <<>> /\ wire = <<>> /\ handshake = <<>>

Start ==
    /\ ScenarioSize < MaxScenario
    /\ Becomes(start(W))

Command ==
    /\ ScenarioSize < MaxScenario
    /\ Becomes(command(W, NextCommandCall.cmd, NextCommandCall.timeout))

End ==
    Becomes(end(W))

Abort ==
    \E err \in {Undefined, <<"Aborted by user">>} : Becomes(abort(W, err))

Callback ==
    \E c \in 1..Len(cps) :
        \E k \in {cps[c].invoked[i] : i \in 1..Len(cps[c].invoked)} :
            /\ cps[c].cbs[k] = 0 \/ nRepeat < MaxRepeats
            /\ \E err \in {<<>>, <<"Veto">>} : Becomes(callback(W, c, k, err))

VetoTimeout ==
    \E c \in 1..Len(cps) :
        /\ Quiet
        /\ cps[c].timer = "armed"
        /\ Becomes(onVetoTimeout(W, c))

TcpConnect ==
    \E p \in 1..Len(proms) :
        /\ Quiet
        /\ proms[p].op = "connect" /\ proms[p].st = "pending" /\ ~proms[p].tcp
        /\ Becomes(onConnect(W, p))

ConnectRefused ==
    \E p \in 1..Len(proms) :
        /\ Quiet
        /\ proms[p].op = "connect" /\ proms[p].st = "pending" /\ ~proms[p].tcp
        /\ Becomes(reject(W, p, <<"ECONNREFUSED">>))

ReplyData ==
    \E s \in 1..Len(proms) :
        /\ Quiet
        /\ proms[s].op = "connect" /\ proms[s].tcp
        /\ \E p \in 1..Len(proms) : proms[p].st = "pending" /\ proms[p].sock = s
        /\ Becomes(onData(W, s, Reply(W, s), 1))

ReplyFailed ==
    \E p \in 1..Len(proms) :
        /\ Quiet
        /\ proms[p].st = "pending"
        /\ proms[p].op = "connect" => proms[p].tcp
        /\ Becomes(reject(W, p, <<"Timeout waiting on reply">>))

DoWrite ==
    \E p \in 1..Len(proms) :
        /\ proms[p].wr = "tick"
        /\ \A q \in 1..(p - 1) : proms[q].wr # "tick"
        /\ \E flushed \in BOOLEAN : Becomes(doWrite(W, p, flushed))

Drain ==
    /\ Quiet
    /\ needsDrain
    /\ Becomes([W EXCEPT !.needsDrain = FALSE])

RunHandlers ==
    \E p \in 1..Len(proms) :
        /\ ~TickPending
        /\ proms[p].st # "pending" /\ proms[p].waiters > 0
        /\ Becomes(runHandlers(W, p))

Next ==
    \/ Start
    \/ Command
    \/ End
    \/ Abort
    \/ Callback
    \/ VetoTimeout
    \/ TcpConnect
    \/ ConnectRefused
    \/ ReplyData
    \/ ReplyFailed
    \/ DoWrite
    \/ Drain
    \/ RunHandlers

Spec == Init /\ [][Next]_vars

(***************************************************************************)
(* Properties.                                                             *)
(***************************************************************************)
CheckpointIds == 1..Len(cps)
PromiseIds    == 1..Len(proms)

\* No observer of cp called back with an error or more than once.
AnsweredOnce(cp) == ~cp.cbErr /\ \A k \in 1..cp.n : cp.cbs[k] <= 1
AllAnswered(cp)  == \A k \in 1..cp.n : cp.cbs[k] = 1

\* The observers of cp were invoked in registration order, each after the
\* one before it had called back, and proceed was called once after the last
\* had, and not before.
Chain(cp) ==
    /\ cp.invoked = [i \in 1..Len(cp.invoked) |-> i]
    /\ \A j \in 2..Len(cp.invoked) : cp.cbs[j - 1] >= 1
    /\ cp.proceeded = IF AllAnswered(cp) THEN 1 ELSE 0

\* Without observers the continuation is called by emit() itself: every
\* command() has called client.command(), every start() client.connect().
ProceedsAtOnce ==
    /\ nListeners["command"] = 0 =>
           /\ Cardinality({p \in PromiseIds : proms[p].op = "command"}) = nCommand
           /\ \A p \in PromiseIds : proms[p].op = "command" => proms[p].cp = 0
    /\ nListeners["connect"] = 0 /\ nStart > 0 =>
           \E p \in PromiseIds : proms[p].op = "connect" /\ proms[p].cp = 0

\* C1 as stated: when the observers of a checkpoint each call their callback
\* once and without error, they are invoked one at a time in registration
\* order, each after the one before it has called back, and proceed is
\* invoked exactly once, after the last callback (immediately without
\* observers).
C1_SequentialAsStated ==
    /\ \A c \in CheckpointIds : AnsweredOnce(cps[c]) => Chain(cps[c])
    /\ ProceedsAtOnce

\* C1, amended: the same for observers that each call back once, without
\* error, before the checkpoint timer has fired and while the session has
\* not ended.
C1_Sequential ==
    /\ \A c \in CheckpointIds :
           AnsweredOnce(cps[c]) /\ ~cps[c].late => Chain(cps[c])
    /\ ProceedsAtOnce

\* Two observers or more have each called back once, in time, and proceed
\* was called.
C1_Witness ==
    \E c \in CheckpointIds :
        /\ cps[c].n >= 2
        /\ AnsweredOnce(cps[c]) /\ ~cps[c].late /\ AllAnswered(cps[c])
        /\ cps[c].invoked = <<1, 2>>
        /\ cps[c].proceeded = 1

\* C2: after an observer has called back with an error before the timer
\* fired, no later observer is invoked and proceed is never invoked,
\* whatever follows.
C2_VetoIsFinal ==
    \A c \in CheckpointIds :
        cps[c].vetoedAt > 0 =>
            /\ cps[c].proceeded = 0
            /\ Len(cps[c].invoked) = cps[c].vetoedAt

\* The timer function of checkpoint c runs in this step.
Fires(c) == cps[c].expiredAt = 0 /\ cps'[c].expiredAt > 0

\* An observer of checkpoint c calls its callback in this step.
CallsBack(c) == cps'[c].cbs # cps[c].cbs

\* The 'error' event of an abort caused by the timer of checkpoint cp.
ExpiredEvent(cp) ==
    [type |-> "error", err |-> <<"Session aborted", ExpiredMessage(cp.ev)>>]

\* The delay of the timer is the per-call override, 3000 ms without one;
\* the timer only fires on a chain that has not completed, and after it has
\* fired no further observer is invoked and proceed is not.
TimerBoundsChain ==
    \A c \in CheckpointIds :
        /\ cps[c].onReady.k = "send" =>
               cps[c].timeout = IF cps[c].onReady.timeout > 0
                                THEN cps[c].onReady.timeout ELSE DefaultVetoTimeout
        /\ cps[c].onReady.k \in {"next", "default"} =>
               cps[c].timeout = DefaultVetoTimeout
        /\ cps[c].timeout > 0
        /\ cps[c].expiredAt > 0 =>
               /\ cps[c].proceeded = 0
               /\ cps[c].vetoedAt = 0
               /\ Len(cps[c].invoked) = cps[c].expiredAt
               /\ ~AllAnswered(cps[c]) \/ cps[c].late

\* A callback made after the timer fired changes nothing: no event, no
\* state, no call of the client.
LateCallbackIgnored ==
    \A c \in CheckpointIds :
        cps[c].expiredAt > 0 /\ CallsBack(c) =>
            /\ state' = state
            /\ nTerminal' = nTerminal
            /\ lastEvent' = lastEvent
            /\ proms' = proms
            /\ Len(cps') = Len(cps)
            /\ cps'[c].invoked = cps[c].invoked
            /\ cps'[c].proceeded = cps[c].proceeded

C4_ClosesTransport ==
    [][(/\ ~Truthy(state.ended)
        /\ Truthy(state.connected)
        /\ Truthy(state'.ended)) => nClose' = nClose + 1]_vars

\* The event that goes with the recorded end of the session.
TerminalEvent ==
    IF lastEvent.type = "end" THEN state.error = Undefined
    ELSE /\ lastEvent.type = "error"
         /\ lastEvent.err = VError(IF state.error = Undefined
                                   THEN <<"Unknown reason.">> ELSE state.error,
                                   "Session aborted")

\* C5: end() and abort() on an ended session emit no event and leave the
\* record of the end as it is; since the last start() a session has emitted
\* at most one terminal event, and exactly one when it has ended.
C5_EndsOnce ==
    /\ [](/\ nTerminal <= 1
          /\ Truthy(state.ended) <=> nTerminal = 1
          /\ Truthy(state.ended) => TerminalEvent)
    /\ [][Truthy(state.ended) /\ nStart' = nStart =>
              /\ nTerminal' = nTerminal
              /\ lastEvent' = lastEvent
              /\ state'.ended = state.ended
              /\ state'.error = state.error
              /\ nClose' = nClose]_vars

\* abort() was called on a session that had ended: the timer of a checkpoint
\* has fired in a session that was started once and ended with end().
C5_Witness ==
    \E c \in CheckpointIds :
        /\ cps[c].expiredAt > 0
        /\ nStart = 1
        /\ Truthy(state.ended)
        /\ lastEvent.type = "end"
        /\ nTerminal = 1

\* C6: once state.ended is true, no field of session.state changes until
\* start() is called again.
C6_FrozenWhenEnded ==
    [][Truthy(state.ended) /\ nStart' = nStart => state' = state]_vars

\* The handlers the session attached to promise p run in this step on its
\* rejection.
FailureHandled(p) ==
    /\ proms'[p].st = "rejected"
    /\ proms[p].waiters > 0
    /\ proms'[p].waiters = 0

Contains(chain, msg) == \E i \in 1..Len(chain) : chain[i] = msg

\* C7: a failure of the client's connect() or command() ends the session
\* (when it has not ended yet) and emits exactly one 'error' event whose
\* cause chain contains the failure.
C7_TransportFailureAborts ==
    [][\A p \in PromiseIds :
           FailureHandled(p) /\ ~Truthy(state.ended) =>
               /\ Truthy(state'.ended)
               /\ nTerminal' = nTerminal + 1
               /\ lastEvent'.type = "error"
               /\ Contains(lastEvent'.err, proms'[p].err[1])]_vars

\* C8: a command checkpoint carries the command that command() has recorded
\* as state.lastCommand, and client.command() is called for it only after it
\* has proceeded, with that command, and never when it was vetoed or has
\* timed out.
C8_CommandAfterCheckpoint ==
    /\ \A c \in CheckpointIds :
           cps[c].ev = "command" =>
               /\ cps[c].seen = <<Def(cps[c].arg)>>
               /\ cps[c].called <= cps[c].proceeded
               /\ cps[c].called > 0 => cps[c].vetoedAt = 0 /\ cps[c].expiredAt = 0
    /\ \A p \in PromiseIds :
           proms[p].op = "command" =>
               IF proms[p].cp = 0 THEN nListeners["command"] = 0
               ELSE /\ cps[proms[p].cp].ev = "command"
                    /\ cps[proms[p].cp].arg = proms[p].arg

\* What start()'s then-handler records for the greeting reply.
ConnectDetails(reply) ==
    [hostname |-> "host", port |-> DefaultPort, secure |-> isTls,
     tlsOpts |-> IF isTls THEN Def("{}") ELSE Undefined, reply |-> reply]

\* C9: client.connect() is called for a connect checkpoint only after it has
\* proceeded and never when it was vetoed or has timed out; the first reply
\* observer invoked with the greeting finds state.connected, state.secure,
\* state.connect and state.lastReply set.
C9_ConnectAfterCheckpoint ==
    \A c \in CheckpointIds :
        /\ cps[c].ev = "connect" =>
               /\ cps[c].called <= cps[c].proceeded
               /\ cps[c].called > 0 => cps[c].vetoedAt = 0 /\ cps[c].expiredAt = 0
        /\ cps[c].ev = "reply" /\ cps[c].onReady.k = "default" =>
               cps[c].seen = <<Def(TRUE), Def(isTls),
                               Def(ConnectDetails(cps[c].arg)), Def(cps[c].arg)>>

\* The commands written to socket s whose reply has not arrived.
Outstanding(s) ==
    {p \in PromiseIds : /\ proms[p].op = "command"
                        /\ proms[p].sock = s
                        /\ proms[p].wr = "sent"
                        /\ proms[p].st = "pending"}

\* C10: on one connection no command is written while the reply to an
\* earlier one is outstanding.
C10_RequestResponse ==
    \A s \in PromiseIds : Cardinality(Outstanding(s)) <= 1

(***************************************************************************)
(* The client on its transport (src/src/client.js), without a session on   *)
(* top: the calls of connect(), command() and close(), the events of the   *)
(* sockets, and the reply parser (src/unnamed/part_002) of each promise as *)
(* far as its listeners and its timer go.  Promises and sockets share      *)
(* their numbering: socket s is the one connect promise s created.         *)
(***************************************************************************)
MaxClientPromises == 3   \* promises created by connect() and command()
MaxClientSockets  == 1   \* sockets created by connect()

\* SMTPReplyParser.prototype.parse, up to its return: listeners attached,
\* the timer armed for a positive timeout.  threw is history: onData threw.
replyParserWithoutTimer(timeout) ==
    [timeout |-> timeout, timer |-> "none", listening |-> TRUE, threw |-> FALSE]

replyParser(timeout) ==
    [timeout |-> timeout, timer |-> IF timeout > 0 THEN "armed" ELSE "none",
     listening |-> TRUE, threw |-> FALSE]

\* No parser: command() rejected before it made one.
NoParser == [timeout |-> 0, timer |-> "none", listening |-> FALSE, threw |-> FALSE]

\* parse(): cleanup, as far as the parser goes.
parserCleanup(parser) ==
    [parser EXCEPT !.timer = IF @ = "armed" THEN "cleared" ELSE @,
                   !.listening = FALSE]

\* resolve() / reject() of promise p: a settled promise stays as it is.
settle(ps, p, st, reply, err) ==
    IF ps[p].st = "pending"
    THEN [ps EXCEPT ![p].st = st, ![p].reply = reply, ![p].err = err]
    ELSE ps

\* A socket: connected says that the client's listeners are attached
\* (_onConnect ran), ended that socket.end() was called, peer what the
\* socket has emitted ("open": nothing yet, "end", "error"), closed that it
\* has emitted 'close'.
Socket == [ended |-> FALSE, peer |-> "open", closed |-> FALSE]

\* The parsers listening on socket s.
Listening(s) ==
    {p \in 1..Len(proms) : proms[p].sock = s /\ parsers[p].listening}

\* cleanup(result) of every parser listening on socket s.
cleanupAll(s, st, reply, err) ==
    [proms   |-> [p \in 1..Len(proms) |->
                     IF p \in Listening(s)
                     THEN settle(proms, p, st, reply, err)[p] ELSE proms[p]],
     parsers |-> [p \in 1..Len(parsers) |->
                     IF p \in Listening(s)
                     THEN parserCleanup(parsers[p]) ELSE parsers[p]]]

\* SMTPClient.prototype._cleanup
clientCleanup(w) == [w EXCEPT !.socket = 0]

ClientBecomes(w, ps, ss) ==
    /\ proms' = w.proms
    /\ socket' = w.socket
    /\ connectPromise' = w.connectPromise
    /\ needsDrain' = w.needsDrain
    /\ sending' = w.sending
    /\ nClose' = w.nClose
    /\ parsers' = ps
    /\ sockets' = ss
    /\ UNCHANGED <<state, nListeners, isTls, cps, lastEvent, nTerminal, nStart,
                   nCommand, nRepeat, clientTimeout>>
    /\ UNCHANGED <<parserVars, dotVars, textVars, ioVars>>

ClientInit ==
    /\ state = StateRecord("")
    /\ nListeners = [e \in Checkpoints |-> 0]
    /\ isTls = FALSE
    /\ cps = <<>>
    /\ proms = <<>>
    /\ socket = 0
    /\ connectPromise = 0
    /\ needsDrain = FALSE
    /\ sending = FALSE
    /\ lastEvent = NoEvent
    /\ nTerminal = 0
    /\ nClose = 0
    /\ nStart = 0
    /\ nCommand = 0
    /\ nRepeat = 0
    /\ clientTimeout \in {0, DefaultTimeout}
    /\ parsers = <<>>
    /\ sockets = <<>>
    /\ lineParser = <<>>
    /\ inputStream = <<>>
    /\ encoder = <<>> /\ decoder = <<>> /\ dataPipe = <<>>
    /\ cmdText = <<>> /\ replyText = <<>>
    /\ construction = <<>> /\ wire = <<>> /\ handshake = <<>>

\* client.connect(host, port) without a timeout option.  Once a socket has
\* connected the call returns the first promise again and changes nothing.
ClientConnect ==
    /\ connectPromise = 0
    /\ Len(proms) < MaxClientPromises
    /\ Cardinality({p \in 1..Len(proms) : proms[p].op = "connect"}) < MaxClientSockets
    /\ ClientBecomes(clientConnect(W, 0),
           Append(parsers, replyParser(clientTimeout)), Append(sockets, Socket))

\* client.command(command, {timeout: t}); t = 0: no option.
ClientCommand ==
    \E t \in {0, 500} :
        LET w == clientCommand(W, 0, "NOOP", 0)
            timeout == IF t # 0 THEN t ELSE clientTimeout
        IN /\ Len(proms) < MaxClientPromises
           /\ ClientBecomes(w,
                  Append(parsers, IF w.proms[Len(w.proms)].st = "pending"
                                  THEN replyParser(timeout) ELSE NoParser),
                  Append(sockets, Socket))

\* client.close(); without a socket it changes nothing.
ClientClose ==
    /\ socket # 0
    /\ ClientBecomes(clientClose(W), parsers,
           [sockets EXCEPT ![socket].ended = TRUE])

\* The socket of connect promise s connects: _onConnect.
SocketConnect ==
    \E s \in 1..Len(proms) :
        /\ ~TickPending
        /\ proms[s].op = "connect" /\ ~proms[s].tcp
        /\ sockets[s].peer = "open"
        /\ ClientBecomes(onConnect(W, s), parsers, sockets)

\* Socket s emits 'error' and, in the same tick, 'close': before it has
\* connected _onError rejects the connect promise, after that onError and
\* onClose run; the parsers listening on it reject their promises.
SocketError ==
    \E s \in 1..Len(proms) :
        /\ ~TickPending
        /\ proms[s].op = "connect" /\ sockets[s].peer = "open"
        /\ LET c == cleanupAll(s, "rejected", "", <<"ECONNRESET">>)
               w == [W EXCEPT !.proms = IF proms[s].tcp THEN c.proms
                                        ELSE settle(c.proms, s, "rejected", "",
                                                    <<"ECONNRESET">>),
                              !.sending = FALSE]
           IN ClientBecomes(IF proms[s].tcp THEN clientCleanup(w) ELSE w,
                  c.parsers,
                  [sockets EXCEPT ![s].peer = "error", ![s].closed = TRUE])

\* Socket s emits 'end': onEnd runs, the parsers listening on it reject
\* their promises.
SocketEnd ==
    \E s \in 1..Len(proms) :
        /\ ~TickPending
        /\ proms[s].op = "connect" /\ proms[s].tcp /\ sockets[s].peer = "open"
        /\ LET c == cleanupAll(s, "rejected", "",
                               <<"Premature end of input while parsing reply.">>)
           IN ClientBecomes(clientCleanup([W EXCEPT !.proms = c.proms]),
                  c.parsers, [sockets EXCEPT ![s].peer = "end"])

\* Socket s emits 'close' after its 'end': onClose runs.
SocketClose ==
    \E s \in 1..Len(proms) :
        /\ ~TickPending
        /\ proms[s].op = "connect" /\ sockets[s].peer = "end" /\ ~sockets[s].closed
        /\ ClientBecomes(clientCleanup(W), parsers,
               [sockets EXCEPT ![s].closed = TRUE])

\* The timer of the parser of promise p fires: onTimeout.
ParserTimeout ==
    \E p \in 1..Len(proms) :
        /\ ~TickPending
        /\ parsers[p].timer = "armed"
        /\ ClientBecomes(
               [W EXCEPT !.proms = settle(proms, p, "rejected", "",
                                          <<"Timeout parsing reply">>)],
               [parsers EXCEPT ![p].timer = "fired", ![p].listening = FALSE],
               sockets)

\* Socket s emits 'data' with a chunk that holds a reply, a line that is no
\* reply line, or a reply with more bytes behind it.  In the last case the
\* first parser throws out of onData and out of the socket's emit.
ReplyArrives ==
    \E s \in 1..Len(proms) :
        /\ ~TickPending
        /\ proms[s].op = "connect" /\ proms[s].tcp /\ sockets[s].peer = "open"
        /\ Listening(s) # {}
        /\ \E kind \in {"reply", "invalid", "overhead"} :
               LET c == IF kind = "reply"
                        THEN cleanupAll(s, "resolved", "250", <<>>)
                        ELSE cleanupAll(s, "rejected", "", <<"Invalid reply line">>)
                   first == CHOOSE p \in Listening(s) : \A q \in Listening(s) : p <= q
               IN IF kind = "overhead"
                  THEN ClientBecomes(W, [parsers EXCEPT ![first].threw = TRUE], sockets)
                  ELSE ClientBecomes([W EXCEPT !.proms = c.proms], c.parsers, sockets)

\* The socket emits 'drain'.
SocketDrain ==
    /\ ~TickPending
    /\ needsDrain
    /\ ClientBecomes([W EXCEPT !.needsDrain = FALSE], parsers, sockets)

ClientNext ==
    \/ ClientConnect
    \/ ClientCommand
    \/ ClientClose
    \/ SocketConnect
    \/ SocketError
    \/ SocketEnd
    \/ SocketClose
    \/ ParserTimeout
    \/ ReplyArrives
    \/ SocketDrain
    \/ DoWrite

ClientSpec == ClientInit /\ [][ClientNext]_vars

\* Timers fire and process.nextTick callbacks run.
ClientLive == ClientSpec /\ WF_vars(ParserTimeout) /\ WF_vars(DoWrite)

\* Socket s has failed: it has emitted 'error' or 'end', or the greeting on
\* it has failed or timed out.
Failed(s) ==
    /\ proms[s].op = "connect"
    /\ sockets[s].peer # "open" \/ proms[s].st = "rejected"

\* The connection of socket s is closed: socket.end() was called, or it has
\* ended or was destroyed.
Closed(s) == sockets[s].ended \/ sockets[s].peer # "open"

\* C11: after a transport-level error, a premature end or a greeting that
\* fails or times out, the connection is closed and the client does not
\* hold the socket any more, so that command() rejects with 'Client is not
\* connected.'.
C11_FatalClose ==
    \A s \in 1..Len(proms) : Failed(s) => Closed(s) /\ socket # s

\* Promise p is pending and its parser was given a positive timeout.
Waiting(p) ==
    p <= Len(proms) /\ proms[p].st = "pending" /\ parsers[p].timeout > 0

\* C12: with a positive timeout, every promise returned by connect() and
\* command() is eventually resolved or rejected, whatever the sockets do.
C12_Settles ==
    \A p \in 1..MaxClientPromises :
        Waiting(p) ~> (p <= Len(proms) /\ proms[p].st # "pending")

\* A command that was never written (the client needed a drain) and a
\* command whose reply threw in the parser were both rejected by the timer
\* of their parser.
C12_Witness ==
    /\ \E p \in 1..Len(proms) :
           /\ proms[p].op = "command" /\ proms[p].wr = "refused"
           /\ proms[p].st = "rejected" /\ parsers[p].timer = "fired"
    /\ \E p \in 1..Len(proms) :
           /\ parsers[p].threw
           /\ proms[p].st = "rejected" /\ parsers[p].timer = "fired"

(***************************************************************************)
(* The streaming parsers: SMTPCmdLineParser.parse (src/unnamed/part_001)   *)
(* and SMTPReplyParser.parse (src/unnamed/part_002).  One call of parse()  *)
(* is the record lineParser: the closure variables of the call, its        *)
(* promise, its timer and the listeners it has on the input stream.  The   *)
(* record inputStream is the history of what the stream has delivered.     *)
(* Bytes are numbers; a chunk and a buffer are sequences of bytes.  Of a   *)
(* line buffer the model keeps the first bufferSize (lineLength) bytes:    *)
(* the parsers never read the bytes behind them.                           *)
(***************************************************************************)
MaxLineLength == 6   \* maxLineLength of both parsers (512 in the source)
MaxChunkLength == 3  \* bytes in one 'data' event
MaxChunks == 4       \* 'data' events of one stream

CR   == 13   \* 0x0d
LF   == 10   \* 0x0a
Two  == 50   \* '2': a digit, and a letter of a command verb
Dash == 45   \* '-': marks a reply line that is followed by another one
Zero == 48   \* '0': the first of the ten digits
Space == 32  \* ' ': separates the code of a last reply line from its message

Bytes == {CR, LF, Two, Dash}
Chunks == UNION {[1..n -> Bytes] : n \in 1..MaxChunkLength}

CmdOversize  == "Number of input bytes exceeds size limit of %d octets."
CmdLineBreak == "Input stream contains unsupported line break."
CmdTrailing  == "Input stream provided additional octets after CRLF line break."
CmdEmpty     == "Unable to parse empty command line."
CmdEnd       == "Premature end of input stream while parsing SMTP command."
CmdTimeout   == "Timeout after waiting on SMTP command for more than %d seconds."
ReplyOversize  == "Number of input bytes exceeds line limit of %d octets."
ReplyLineBreak == "Reply line must not contain line breaks."
ReplyNonStandard == "Reply line contains non-standard line breaks."
ReplyInvalid   == "Invalid reply line: %s"
ReplyOverhead  == "Illicit overhead data after end of reply has been indicated."
ReplyEnd       == "Premature end of input while parsing reply."
ReplyTimeout   == "Timeout parsing reply after %d seconds."
StreamError    == "read ECONNRESET"

\* A parser object before parse() is called.
NewParser(kind, timeout) ==
    [kind |-> kind, timeout |-> timeout, buffer |-> <<>>, bufferSize |-> 0,
     replyLines |-> <<>>, timer |-> "none", listeners |-> {},
     st |-> "idle", result |-> <<>>, threw |-> FALSE]

NewStream ==
    [state |-> "open", last |-> 0, bare |-> FALSE, split |-> FALSE,
     overhead |-> FALSE, oversize |-> FALSE, lone |-> FALSE, chunks |-> 0]

\* resolve(result) / reject(result) of the promise of parse(): the first
\* call settles the promise, later calls change nothing.
settleParse(p, st, result) ==
    IF p.st = "pending" THEN [p EXCEPT !.st = st, !.result = result] ELSE p

clearTimer(p) ==
    [p EXCEPT !.timer = IF @ = "armed" THEN "cleared" ELSE @]

\* parse() of either parser: listeners on the stream, and a timer only for
\* a positive timeout.
parseWithoutTimer(p) ==
    [p EXCEPT !.st = "pending", !.listeners = {"data", "error", "end"}]

parse(p) ==
    [p EXCEPT !.st = "pending",
              !.listeners = {"data", "error", "end"},
              !.timer = IF p.timeout > 0 THEN "armed" ELSE "none"]

\* cleanup of the command parser: only the 'data' listener is removed.
cmdCleanup(p, st, result) ==
    clearTimer(settleParse([p EXCEPT !.listeners = @ \ {"data"}], st, result))

\* cleanup of the reply parser.
replyCleanup(p, st, result) ==
    settleParse([clearTimer(p) EXCEPT !.listeners = {}], st, result)

\* The loop of the command parser over the chunk (part_001:56-63): stops
\* behind the first LF, or at a line break that is not CR LF.
RECURSIVE cmdScan(_, _, _, _)
cmdScan(chunk, pos, lastChar, currChar) ==
    IF pos <= Len(chunk) /\ currChar # LF
    THEN LET c == chunk[pos] IN
         IF (lastChar = CR /\ c # LF) \/ (lastChar # CR /\ c = LF)
         THEN [bad |-> TRUE, pos |-> pos, currChar |-> c]
         ELSE cmdScan(chunk, pos + 1, c, c)
    ELSE [bad |-> FALSE, pos |-> pos - 1, currChar |-> currChar]

\* parseCommandLine for a line of the model's bytes: they hold no white
\* space, so trim() and split() leave the line as the verb.
parseCommandLine(line) ==
    IF line = <<>> THEN [error |-> CmdEmpty, verb |-> <<>>]
    ELSE IF Len(line) > MaxLineLength - 2 THEN [error |-> CmdOversize, verb |-> <<>>]
    ELSE [error |-> "", verb |-> line]

cmdOnDataUnchecked(p, chunk) ==
    LET lastChar == IF p.bufferSize # 0 THEN p.buffer[p.bufferSize] ELSE 0
        n == IF p.bufferSize + Len(chunk) > MaxLineLength THEN MaxLineLength
             ELSE p.bufferSize + Len(chunk)
        q == [p EXCEPT !.buffer = SubSeq(p.buffer \o chunk, 1, n), !.bufferSize = n]
        scan == cmdScan(chunk, 1, lastChar, 0)
    IN  IF scan.bad THEN cmdCleanup(q, "rejected", CmdLineBreak)
        ELSE IF scan.currChar = LF
        THEN IF scan.pos # Len(chunk)
             THEN cmdCleanup(q, "rejected", CmdTrailing)
             ELSE LET c == parseCommandLine(SubSeq(q.buffer, 1, q.bufferSize - 2)) IN
                  IF c.error # "" THEN cmdCleanup(q, "rejected", c.error)
                  ELSE cmdCleanup(q, "resolved", c.verb)
        ELSE q

cmdOnData(p, chunk) ==
    IF Len(chunk) = 0 THEN p
    ELSE IF p.bufferSize + Len(chunk) > MaxLineLength
    THEN cmdCleanup(p, "rejected", CmdOversize)
    ELSE LET lastChar == IF p.bufferSize # 0 THEN p.buffer[p.bufferSize] ELSE 0
             q == [p EXCEPT !.buffer = @ \o chunk, !.bufferSize = @ + Len(chunk)]
             scan == cmdScan(chunk, 1, lastChar, 0)
         IN  IF scan.bad THEN cmdCleanup(q, "rejected", CmdLineBreak)
             ELSE IF scan.currChar = LF
             THEN IF scan.pos # Len(chunk)
                  THEN cmdCleanup(q, "rejected", CmdTrailing)
                  ELSE LET c == parseCommandLine(SubSeq(q.buffer, 1, q.bufferSize - 2)) IN
                       IF c.error # "" THEN cmdCleanup(q, "rejected", c.error)
                       ELSE cmdCleanup(q, "resolved", c.verb)
             ELSE q

\* String.prototype.trimRight on the model's bytes: CR and LF are white
\* space, '2' and '-' are not.
RECURSIVE trimRight(_)
trimRight(input) ==
    IF input # <<>> /\ input[Len(input)] \in {CR, LF, Space}
    THEN trimRight(SubSeq(input, 1, Len(input) - 1))
    ELSE input

IsDigit(c) == c \in Zero..(Zero + 9)

\* Number.parseInt of the three digits of a reply code.
parseInt(digits) ==
    100 * (digits[1] - Zero) + 10 * (digits[2] - Zero) + (digits[3] - Zero)

ReplyLine(code, isLast, message) ==
    [error |-> "", code |-> code, isLast |-> isLast, message |-> message]

NoReplyLine(error) ==
    [error |-> error, code |-> 0, isLast |-> FALSE, message |-> <<>>]

parseReplyLine(input) ==
    LET line == trimRight(input) IN
    IF input = <<>> THEN NoReplyLine("Cannot parse an empty line.")
    ELSE IF Len(input) > MaxLineLength THEN NoReplyLine(CmdOversize)
    ELSE IF \E i \in 1..(Len(line) - 1) : line[i] = CR /\ line[i + 1] = LF
    THEN NoReplyLine(ReplyLineBreak)
    ELSE IF \E i \in 1..Len(line) : line[i] \in {CR, LF}
    THEN NoReplyLine(ReplyNonStandard)
    ELSE IF ~(/\ Len(line) >= 3
              /\ line[1] \in Two..(Two + 3)
              /\ IsDigit(line[2]) /\ IsDigit(line[3]))
    THEN NoReplyLine(ReplyInvalid)
    ELSE IF Len(line) >= 4 /\ line[4] \in {Dash, Space}
    THEN ReplyLine(parseInt(line), line[4] # Dash, SubSeq(line, 5, Len(line)))
    ELSE ReplyLine(parseInt(line), TRUE, <<>>)

\* parseReply without the checks of part_002:143 and :146.
parseReplyUnchecked(replyLines) ==
    [error |-> "",
     value |-> <<[code |-> 0, message |-> <<>>, lines |-> <<>>]>>]

\* parseReply for an array of reply lines, as onData collects them: a last
\* line may only be the last one; the code is the one of the last line
\* visited, the message the one of the first line.
parseReply(replyLines) ==
    IF replyLines = <<>>
    THEN [error |-> "No reply lines to parse in input.", value |-> <<>>]
    ELSE IF \E i \in 1..(Len(replyLines) - 1) : replyLines[i].isLast
    THEN [error |-> "Premature end of multiline reply.", value |-> <<>>]
    ELSE IF ~replyLines[Len(replyLines)].isLast
    THEN [error |-> "Unterminated multiline reply.", value |-> <<>>]
    ELSE [error |-> "",
          value |-> <<[code |-> replyLines[Len(replyLines)].code,
                       message |-> replyLines[1].message,
                       lines |-> [i \in 1..Len(replyLines) |->
                                      replyLines[i].message]]>>]

\* An onData of the reply parser that drops the chunk.
replyOnDataDropped(p, chunk, pos) ==
    p

\* onData of the reply parser from byte pos of the chunk on.  The throw of
\* part_002:58 leaves the handler at once: nothing is cleaned up, and
\* lineLength keeps the length of the line.
RECURSIVE replyOnData(_, _, _)
replyOnData(p, chunk, pos) ==
    IF pos > Len(chunk) THEN p
    ELSE IF p.bufferSize >= MaxLineLength
    THEN replyCleanup(p, "rejected", ReplyOversize)
    ELSE LET c == chunk[pos]
             q == [p EXCEPT !.buffer = Append(@, c), !.bufferSize = @ + 1]
         IN  IF c # LF THEN replyOnData(q, chunk, pos + 1)
             ELSE LET replyLine == parseReplyLine(q.buffer) IN
                  IF replyLine.error # ""
                  THEN replyCleanup(q, "rejected", replyLine.error)
                  ELSE LET r == [q EXCEPT !.replyLines = Append(@, [code |-> replyLine.code, isLast |-> replyLine.isLast,
                                                                  message |-> replyLine.message])] IN
                       IF replyLine.isLast
                       THEN IF pos # Len(chunk)
                            THEN [r EXCEPT !.threw = TRUE]
                            ELSE IF parseReply(r.replyLines).error # ""
                            THEN replyCleanup(r, "rejected", parseReply(r.replyLines).error)
                            ELSE replyCleanup(r, "resolved", parseReply(r.replyLines).value[1])
                       ELSE replyOnData([r EXCEPT !.buffer = <<>>, !.bufferSize = 0],
                                        chunk, pos + 1)

parserOnData(p, chunk) ==
    IF p.kind = "command" THEN cmdOnData(p, chunk) ELSE replyOnData(p, chunk, 1)

parserCleanupWith(p, cmdError, replyError) ==
    IF p.kind = "command" THEN cmdCleanup(p, "rejected", cmdError)
    ELSE replyCleanup(p, "rejected", replyError)

parserOnEndIgnored(p) ==
    p

parserOnEnd(p) ==
    parserCleanupWith([p EXCEPT !.listeners = IF p.kind = "command" THEN @ \ {"end"} ELSE @],
                      CmdEnd, ReplyEnd)

parserOnError(p) ==
    parserCleanupWith([p EXCEPT !.listeners = IF p.kind = "command" THEN @ \ {"error"} ELSE @],
                      StreamError, StreamError)

parserOnTimeout(p) ==
    parserCleanupWith([p EXCEPT !.timer = "fired"], CmdTimeout, ReplyTimeout)

\* History of the stream.  A bare line break in the bytes delivered so far:
\* an LF that does not follow a CR, or a CR followed by another byte than LF.
BareIn(last, chunk) ==
    \E i \in 1..Len(chunk) :
        LET prev == IF i = 1 THEN last ELSE chunk[i - 1] IN
        (chunk[i] = LF /\ prev # CR) \/ (prev = CR /\ chunk[i] # LF)

\* A line that ends with CR LF and holds no other CR or LF.
Terminated(line) ==
    /\ Len(line) >= 2 /\ line[Len(line) - 1] = CR /\ line[Len(line)] = LF
    /\ \A i \in 1..(Len(line) - 2) : line[i] \notin {CR, LF}

\* The chunk completes a well-formed line of the parser (a command line, or
\* the last line of a reply) that fits the buffer, and goes on behind the
\* terminator of that line.
OverheadIn(p, chunk) ==
    /\ p.st = "pending" /\ ~p.threw
    /\ p.kind = "command" => p.bufferSize + Len(chunk) <= MaxLineLength
    /\ \E i \in 1..(Len(chunk) - 1) :
           LET line == p.buffer \o SubSeq(chunk, 1, i) IN
           /\ Terminated(line) /\ Len(line) <= MaxLineLength
           /\ IF p.kind = "command" THEN Len(line) > 2
              ELSE Len(line) >= 5 /\ (\A j \in 1..3 : IsDigit(line[j])) /\ line[4] # Dash

\* With the chunk the bytes of the line the parser is collecting, its
\* terminator included, become more than maxLineLength.
OversizeIn(p, chunk) ==
    \E k \in 1..Len(chunk) :
        /\ p.bufferSize + k > MaxLineLength
        /\ \A j \in 1..(k - 1) : chunk[j] # LF

deliver(is, p, chunk) ==
    [is EXCEPT !.last = chunk[Len(chunk)],
               !.bare = @ \/ BareIn(is.last, chunk),
               !.split = is.last = CR /\ chunk[1] = LF /\ Len(chunk) = 1,
               !.overhead = @ \/ OverheadIn(p, chunk),
               !.oversize = @ \/ OversizeIn(p, chunk),
               !.chunks = @ + 1]

ParserInit ==
    /\ state = StateRecord("") /\ nListeners = [e \in Checkpoints |-> 0]
    /\ isTls = FALSE /\ cps = <<>> /\ proms = <<>> /\ socket = 0
    /\ connectPromise = 0 /\ needsDrain = FALSE /\ sending = FALSE
    /\ lastEvent = NoEvent /\ nTerminal = 0 /\ nClose = 0 /\ nStart = 0
    /\ nCommand = 0 /\ nRepeat = 0
    /\ clientTimeout = DefaultTimeout /\ parsers = <<>> /\ sockets = <<>>
    /\ \E kind \in {"command", "reply"}, timeout \in {0, DefaultTimeout} :
           lineParser = NewParser(kind, timeout)
    /\ inputStream = NewStream
    /\ encoder = <<>> /\ decoder = <<>> /\ dataPipe = <<>>
    /\ cmdText = <<>> /\ replyText = <<>>
    /\ construction = <<>> /\ wire = <<>> /\ handshake = <<>>

ParserBecomes(p, is) ==
    /\ lineParser' = p
    /\ inputStream' = is
    /\ UNCHANGED <<sessionVars, clientVars, dotVars, textVars, ioVars>>

Parse ==
    /\ lineParser.st = "idle"
    /\ ParserBecomes(parse(lineParser), inputStream)

StreamData ==
    \E chunk \in Chunks :
        /\ inputStream.state = "open"
        /\ inputStream.chunks < MaxChunks
        /\ "data" \in lineParser.listeners
        /\ ParserBecomes(parserOnData(lineParser, chunk),
                         deliver(inputStream, lineParser, chunk))

StreamEnd ==
    /\ inputStream.state = "open"
    /\ lineParser.st # "idle"
    /\ ParserBecomes(IF "end" \in lineParser.listeners
                     THEN parserOnEnd(lineParser) ELSE lineParser,
                     [inputStream EXCEPT !.state = "ended",
                                         !.lone = lineParser.st = "pending" /\ inputStream.last = CR])

StreamFails ==
    /\ inputStream.state = "open"
    /\ lineParser.st # "idle"
    /\ ParserBecomes(IF "error" \in lineParser.listeners
                     THEN parserOnError(lineParser) ELSE lineParser,
                     [inputStream EXCEPT !.state = "errored"])

ParseTimeout ==
    /\ lineParser.timer = "armed"
    /\ ParserBecomes(parserOnTimeout(lineParser), inputStream)

ParserNext ==
    Parse \/ StreamData \/ StreamEnd \/ StreamFails \/ ParseTimeout

ParserSpec == ParserInit /\ [][ParserNext]_vars

\* C13: both streaming parsers fail with a framing error when the bytes
\* they receive hold a CR that is not followed by LF or an LF that does not
\* follow a CR, so a parse that was accepted has received no bare CR and no
\* bare LF: its line ended with exactly CR LF.
C13_Framing ==
    lineParser.st = "resolved" => ~inputStream.bare

Settled(p) == p.st \in {"resolved", "rejected"}

\* C14: when a chunk goes on behind the terminator of the command line or
\* of the last reply line, the promise of the parse is rejected with the
\* trailing-data error, no listener of the parse is left on the stream and
\* its timer is not armed any more.
C14_TrailingRejected ==
    inputStream.overhead =>
        /\ lineParser.st = "rejected"
        /\ lineParser.result = IF lineParser.kind = "command" THEN CmdTrailing
                               ELSE ReplyOverhead
        /\ lineParser.listeners = {}
        /\ lineParser.timer # "armed"

PrematureEnd(p) == IF p.kind = "command" THEN CmdEnd ELSE ReplyEnd

\* C15: when the stream ends while the parse is waiting for the terminator
\* of the command line or of the last reply line (also when the last byte
\* was a lone CR), the parse rejects with the premature-end error; no parse
\* stays pending on a stream that has ended.
C15_PrematureEnd ==
    /\ [](inputStream.state = "ended" => lineParser.st # "pending")
    /\ [][(/\ inputStream.state = "open" /\ inputStream'.state = "ended"
           /\ lineParser.st = "pending")
          => (/\ lineParser'.st = "rejected"
              /\ lineParser'.result = PrematureEnd(lineParser))]_vars

\* The stream of a reply parser ended behind a lone CR, and the parse was
\* rejected with the premature-end error.
C15_Witness ==
    /\ inputStream.state = "ended" /\ inputStream.lone
    /\ lineParser.buffer # <<>> /\ lineParser.buffer[Len(lineParser.buffer)] = CR
    /\ lineParser.st = "rejected" /\ lineParser.result = PrematureEnd(lineParser)

TimeoutError(p) == IF p.kind = "command" THEN CmdTimeout ELSE ReplyTimeout

\* C16: a pending parse with a positive timeout has its timer armed, and
\* the timer rejects it with the timeout error; a timeout of 0 arms no
\* timer; a parse that has resolved or rejected has no armed timer and
\* keeps its outcome for ever.
C16_Timeout ==
    /\ [](lineParser.timeout = 0 => lineParser.timer = "none")
    /\ [](lineParser.st = "pending" /\ lineParser.timeout > 0
              => lineParser.timer = "armed")
    /\ [](Settled(lineParser) => lineParser.timer # "armed")
    /\ [][(lineParser.timer = "armed" /\ lineParser'.timer = "fired")
          => (/\ lineParser'.st = "rejected"
              /\ lineParser'.result = TimeoutError(lineParser))]_vars
    /\ [][Settled(lineParser)
          => (lineParser'.st = lineParser.st
              /\ lineParser'.result = lineParser.result)]_vars

\* The timer of a parse that had received part of a line fired: the parse
\* was rejected with the timeout error, and the stream ended afterwards.
C16_Witness ==
    /\ lineParser.timer = "fired" /\ lineParser.bufferSize > 0
    /\ lineParser.st = "rejected" /\ lineParser.result = TimeoutError(lineParser)
    /\ inputStream.state = "ended"

OversizeError(p) == IF p.kind = "command" THEN CmdOversize ELSE ReplyOversize

\* The buffer holds a well-formed line of exactly maxLineLength bytes that
\* nothing followed in its chunk: a command line, or the last reply line.
ExactFit ==
    /\ lineParser.bufferSize = MaxLineLength
    /\ Terminated(lineParser.buffer)
    /\ ~inputStream.overhead
    /\ lineParser.kind = "reply" =>
           (\A j \in 1..3 : IsDigit(lineParser.buffer[j])) /\ lineParser.buffer[4] # Dash

\* C17: a parse never holds more than maxLineLength bytes of a line; when
\* a chunk makes the bytes of the line more than maxLineLength the parse is
\* rejected with the oversize error; a line of exactly maxLineLength bytes,
\* CR LF included, is accepted.
C17_LineLimit ==
    /\ lineParser.bufferSize <= MaxLineLength
    /\ Len(lineParser.buffer) <= MaxLineLength
    /\ inputStream.oversize =>
           lineParser.st = "rejected" /\ lineParser.result = OversizeError(lineParser)
    /\ ExactFit => lineParser.st = "resolved"

\* A command parser whose buffer was full was handed one more chunk and
\* rejected with the oversize error.
C17_Witness ==
    /\ lineParser.kind = "command"
    /\ inputStream.oversize /\ lineParser.bufferSize = MaxLineLength
    /\ lineParser.st = "rejected" /\ lineParser.result = OversizeError(lineParser)

\* A line of exactly maxLineLength bytes was accepted.
C17_ExactFitReached ==
    ExactFit /\ lineParser.st = "resolved"

\* The lines of the bytes, each up to and with its LF, and the bytes behind
\* the last LF.
RECURSIVE SplitLines(_, _, _)
SplitLines(bytes, from, i) ==
    IF i > Len(bytes)
    THEN [lines |-> <<>>, rest |-> SubSeq(bytes, from, Len(bytes))]
    ELSE IF bytes[i] # LF THEN SplitLines(bytes, from, i + 1)
    ELSE LET more == SplitLines(bytes, i + 1, i + 1) IN
         [lines |-> <<SubSeq(bytes, from, i)>> \o more.lines, rest |-> more.rest]

\* What the claim expects of the reply parser p when the chunk arrives and
\* every line it completes is a valid reply line that fits the buffer: the
\* completed lines are added, parsed, to the lines of p in their order and
\* the bytes behind them are kept; when the first last line ends the chunk,
\* q is resolved with parseReply of all the lines.
ExpectedOfReplyParser(p, chunk, q) ==
    LET sp == SplitLines(p.buffer \o chunk, 1, 1)
        rl == [i \in 1..Len(sp.lines) |-> parseReplyLine(sp.lines[i])]
        accumulated ==
            p.replyLines \o [i \in 1..Len(rl) |->
                [code |-> rl[i].code, isLast |-> rl[i].isLast, message |-> rl[i].message]]
    IN  (/\ Len(sp.rest) <= MaxLineLength
         /\ \A i \in 1..Len(rl) : Len(sp.lines[i]) <= MaxLineLength /\ rl[i].error = "")
        => IF \A i \in 1..Len(rl) : ~rl[i].isLast
           THEN /\ q.st = "pending"
                /\ q.replyLines = accumulated
                /\ q.buffer = sp.rest
           ELSE (/\ rl[Len(rl)].isLast /\ sp.rest = <<>>
                 /\ \A i \in 1..(Len(accumulated) - 1) : ~accumulated[i].isLast)
                    => /\ q.st = "resolved"
                       /\ q.result = parseReply(accumulated).value[1]
                       /\ Len(q.result.lines) = Len(accumulated)

\* C32: the reply parser parses every line when its terminator arrives,
\* keeps the lines it has parsed from chunk to chunk, and resolves, once,
\* with parseReply of all of them in their order as soon as the first last
\* line is complete.
C32_Accumulates ==
    /\ [][(/\ lineParser.kind = "reply" /\ lineParser.st = "pending"
           /\ ~lineParser.threw
           /\ inputStream'.chunks = inputStream.chunks + 1)
          => \A chunk \in Chunks :
                 (/\ inputStream'.last = chunk[Len(chunk)]
                  /\ lineParser' = parserOnData(lineParser, chunk)
                  /\ inputStream' = deliver(inputStream, lineParser, chunk))
                     => ExpectedOfReplyParser(lineParser, chunk, lineParser')]_vars
    /\ [][lineParser.st = "resolved"
              => (lineParser'.st = "resolved"
                  /\ lineParser'.result = lineParser.result)]_vars

\* A reply of two lines that came in MaxChunks chunks was resolved.
C32_Witness ==
    /\ lineParser.kind = "reply" /\ lineParser.st = "resolved"
    /\ inputStream.chunks = MaxChunks
    /\ Len(lineParser.result.lines) = 2

\* C33: when a streaming parse has succeeded, none of the listeners it
\* registered on the stream (data, error, end) is left there and its timer
\* is not armed, so no later event of the stream reaches the parse.
C33_NoLeak ==
    lineParser.st = "resolved"
        => lineParser.listeners = {} /\ lineParser.timer # "armed"

\* The same for the reply parser alone.
C33_ReplyParserOnly ==
    (lineParser.st = "resolved" /\ lineParser.kind = "reply")
        => lineParser.listeners = {} /\ lineParser.timer # "armed"

(***************************************************************************)
(* The transform streams of SMTP DATA: DotEncoder and DotDecoder           *)
(* (src/unnamed/part_002, lines 181-301).  A Buffer is a sequence of bytes *)
(* of fixed length.  push(buffer) hands the stream's consumer a reference: *)
(* this.buffer itself, or a slice that shares its memory.  A consumer that *)
(* reads the chunk inside push (a 'data' listener that copies it) sees the *)
(* bytes of that moment; a consumer that keeps the chunk and reads it      *)
(* later (a queue, a socket that is busy) sees what the buffer holds then. *)
(* The model has both: with sync the chunk is read inside push, without it *)
(* the chunk waits in `pending` until the consumer reads.                  *)
(***************************************************************************)
EncoderBufferLength == 3   \* this.buffer.length of the encoder (1024 in the source)
DecoderLineLength == 6     \* maxLineLength of the decoder (1000 in the source)
MaxDataLength == 4         \* bytes written to the encoder
MaxDataChunk == 3          \* bytes in one chunk written to a transform stream

DOT   == 46   \* 0x2e
Alpha == 97   \* 'a': any byte that is not DOT, CR, LF or NUL

DataBytes == {DOT, CR, LF, Alpha}
DataChunks == UNION {[1..n -> DataBytes] : n \in 1..MaxDataChunk}

Slice(from, to) == [alias |-> TRUE, from |-> from, to |-> to, bytes |-> <<>>]
Fresh(bytes) == [alias |-> FALSE, from |-> 0, to |-> 0, bytes |-> bytes]

\* What the consumer finds in a chunk when it reads it.
readChunk(t, chunk) ==
    IF chunk.alias THEN SubSeq(t.buffer, chunk.from, chunk.to) ELSE chunk.bytes

\* stream.Readable.prototype.push of the transform stream t.  emitted is
\* history: the bytes of the chunks as they were when they were pushed.
push(t, chunk) ==
    IF t.sync THEN [t EXCEPT !.out = @ \o readChunk(t, chunk),
                             !.emitted = @ \o readChunk(t, chunk)]
    ELSE [t EXCEPT !.pending = Append(@, chunk),
                   !.emitted = @ \o readChunk(t, chunk)]

\* The consumer reads the chunks it was handed, in their order.
RECURSIVE readPending(_)
readPending(t) ==
    IF t.pending = <<>> THEN t
    ELSE readPending([t EXCEPT !.out = @ \o readChunk(t, Head(t.pending)),
                               !.pending = Tail(@)])

DotEncoder(sync) ==
    [buffer |-> [i \in 1..EncoderBufferLength |-> 0], bufferSize |-> 0,
     lastChar |-> 0, flushed |-> FALSE,
     sync |-> sync, pending |-> <<>>, out |-> <<>>, emitted |-> <<>>]

DotDecoder(sync) ==
    [buffer |-> [i \in 1..DecoderLineLength |-> 0], bufferSize |-> 0,
     ended |-> FALSE, failed |-> FALSE, error |-> "",
     sync |-> sync, pending |-> <<>>, out |-> <<>>, emitted |-> <<>>]

write2Buffer(e, c) ==
    LET w == [e EXCEPT !.buffer[e.bufferSize + 1] = c,
                       !.bufferSize = @ + 1, !.lastChar = c]
    IN  IF w.bufferSize = Len(w.buffer)
        THEN [push(w, Slice(1, Len(w.buffer))) EXCEPT !.bufferSize = 0]
        ELSE w

\* DotEncoder.prototype._transform from byte chunkPos of the chunk on.
RECURSIVE encoderTransform(_, _, _)
encoderTransform(e, chunk, chunkPos) ==
    IF chunkPos > Len(chunk) THEN e
    ELSE LET currentChar == chunk[chunkPos]
             e1 == IF (e.lastChar = 0 \/ e.lastChar = LF) /\ currentChar = DOT
                   THEN write2Buffer(e, DOT) ELSE e
         IN  IF currentChar # LF /\ e1.lastChar = CR
             THEN encoderTransform(write2Buffer(e1, LF), chunk, chunkPos)
             ELSE LET e2 == IF currentChar = LF /\ e1.lastChar # CR
                            THEN write2Buffer(e1, CR) ELSE e1
                  IN  encoderTransform(write2Buffer(e2, currentChar), chunk, chunkPos + 1)

\* DotEncoder.prototype._flush
encoderFlush(e) ==
    LET e1 == push(e, Slice(1, e.bufferSize))
        e2 == IF e1.lastChar = CR
              THEN [push(e1, Fresh(<<LF>>)) EXCEPT !.lastChar = LF]
              ELSE IF e1.lastChar # LF
              THEN [push(e1, Fresh(<<CR, LF>>)) EXCEPT !.lastChar = LF]
              ELSE e1
    IN  [push(e2, Fresh(<<DOT, CR, LF>>)) EXCEPT !.flushed = TRUE]

DecoderOversize == "Input exceeds maximum line length of %d octets."
\* The RangeError of buffer.writeUInt8(value, offset) for an offset that is
\* not inside the buffer.
IndexOutOfRange == "Index out of range"

\* DotDecoder.prototype._transform from byte pos of the chunk on.  The
\* buffer has maxLineLength bytes: writeUInt8 throws when bufferSize has
\* reached its length, which is before the check of line 272 can fail.
RECURSIVE decoderLoop(_, _, _, _)
decoderLoop(d, chunk, pos, lastChar) ==
    IF pos > Len(chunk) THEN d
    ELSE IF d.bufferSize > DecoderLineLength
    THEN [d EXCEPT !.failed = TRUE, !.error = DecoderOversize]
    ELSE IF d.bufferSize >= Len(d.buffer)
    THEN [d EXCEPT !.failed = TRUE, !.error = IndexOutOfRange]
    ELSE LET currChar == chunk[pos]
             w == [d EXCEPT !.buffer[d.bufferSize + 1] = currChar, !.bufferSize = @ + 1]
         IN  IF lastChar = CR /\ currChar = LF
             THEN IF w.bufferSize > 0 /\ w.buffer[1] = DOT
                  THEN IF w.bufferSize = 3
                       THEN [w EXCEPT !.bufferSize = -1, !.ended = TRUE]
                       ELSE decoderLoop([push(w, Slice(2, w.bufferSize)) EXCEPT !.bufferSize = 0],
                                        chunk, pos + 1, currChar)
                  ELSE decoderLoop([push(w, Slice(1, w.bufferSize)) EXCEPT !.bufferSize = 0],
                                   chunk, pos + 1, currChar)
             ELSE decoderLoop(w, chunk, pos + 1, currChar)

\* lastChar starts as the byte in the last place of the buffer (line 270).
decoderTransform(d, chunk) ==
    decoderLoop(d, chunk, 1, IF Len(d.buffer) # 0 THEN d.buffer[Len(d.buffer)] ELSE 0)

DataInit ==
    /\ state = StateRecord("") /\ nListeners = [e \in Checkpoints |-> 0]
    /\ isTls = FALSE /\ cps = <<>> /\ proms = <<>> /\ socket = 0
    /\ connectPromise = 0 /\ needsDrain = FALSE /\ sending = FALSE
    /\ lastEvent = NoEvent /\ nTerminal = 0 /\ nClose = 0 /\ nStart = 0
    /\ nCommand = 0 /\ nRepeat = 0
    /\ clientTimeout = DefaultTimeout /\ parsers = <<>> /\ sockets = <<>>
    /\ lineParser = <<>> /\ inputStream = <<>>
    /\ \E sync \in BOOLEAN :
           encoder = DotEncoder(sync) /\ decoder = DotDecoder(sync)
    /\ dataPipe = [x |-> <<>>, fed |-> 0]
    /\ cmdText = <<>> /\ replyText = <<>>
    /\ construction = <<>> /\ wire = <<>> /\ handshake = <<>>

DataBecomes(e, d, dp) ==
    /\ encoder' = e
    /\ decoder' = d
    /\ dataPipe' = dp
    /\ UNCHANGED <<sessionVars, clientVars, parserVars, textVars, ioVars>>

\* encoder.write(chunk)
EncoderWrite ==
    \E chunk \in DataChunks :
        /\ ~encoder.flushed
        /\ Len(dataPipe.x) + Len(chunk) <= MaxDataLength
        /\ DataBecomes(encoderTransform(encoder, chunk, 1), decoder,
                       [dataPipe EXCEPT !.x = @ \o chunk])

\* encoder.end()
EncoderEnd ==
    /\ ~encoder.flushed
    /\ DataBecomes(encoderFlush(encoder), decoder, dataPipe)

\* The consumer of the encoder reads the chunks it holds.
EncoderRead ==
    /\ encoder.pending # <<>>
    /\ DataBecomes(readPending(encoder), decoder, dataPipe)

\* decoder.write(chunk): the next n bytes of the encoder's output.  After
\* the end of the data the decoder never calls back (line 282), so no
\* further chunk reaches _transform.
DecoderWrite ==
    \E n \in 1..MaxDataChunk :
        /\ ~decoder.ended /\ ~decoder.failed
        /\ dataPipe.fed + n <= Len(encoder.out)
        /\ DataBecomes(encoder,
                       decoderTransform(decoder,
                           SubSeq(encoder.out, dataPipe.fed + 1, dataPipe.fed + n)),
                       [dataPipe EXCEPT !.fed = @ + n])

\* The consumer of the decoder reads the chunks it holds.
DecoderRead ==
    /\ decoder.pending # <<>>
    /\ DataBecomes(encoder, readPending(decoder), dataPipe)

DataNext ==
    EncoderWrite \/ EncoderEnd \/ EncoderRead \/ DecoderWrite \/ DecoderRead

DataSpec == DataInit /\ [][DataNext]_vars

EndMarker == <<DOT, CR, LF>>

\* The bytes of data from place i on start with the bytes of part.
StartsAt(data, i, part) ==
    i + Len(part) - 1 <= Len(data) /\ SubSeq(data, i, i + Len(part) - 1) = part

\* Everything the encoder has put out was read by its consumer and written
\* to the decoder, and the decoder's consumer has read all it was handed.
PipeDrained ==
    /\ encoder.flushed /\ encoder.pending = <<>>
    /\ decoder.pending = <<>>
    /\ decoder.ended \/ decoder.failed \/ dataPipe.fed = Len(encoder.out)

\* C18: for data x without the end marker, however x is cut into chunks on
\* its way into the encoder and the encoder's output on its way into the
\* decoder, the decoder puts out exactly x and then ends.
C18_RoundTrip ==
    (PipeDrained /\ \A i \in 1..Len(dataPipe.x) : ~StartsAt(dataPipe.x, i, EndMarker))
        => decoder.out = dataPipe.x /\ decoder.ended

\* The reference decoding of the bytes of input: its lines up to the first
\* line that is '.' CR LF, each without one leading '.'; `ended` when that
\* line was found.
RECURSIVE ReferenceDecoding(_, _, _)
ReferenceDecoding(input, from, i) ==
    IF i > Len(input) THEN [out |-> <<>>, ended |-> FALSE]
    ELSE IF ~(i > from /\ input[i - 1] = CR /\ input[i] = LF)
    THEN ReferenceDecoding(input, from, i + 1)
    ELSE LET line == SubSeq(input, from, i) IN
         IF line = EndMarker THEN [out |-> <<>>, ended |-> TRUE]
         ELSE LET rest == ReferenceDecoding(input, i + 1, i + 1) IN
              [out |-> (IF line[1] = DOT THEN Tail(line) ELSE line) \o rest.out,
               ended |-> rest.ended]

DecoderInput == SubSeq(encoder.out, 1, dataPipe.fed)

\* C19: whatever the chunks the decoder's input came in, what the decoder
\* has put out is the reference decoding of its input, and it has ended
\* exactly when its input held a line that is '.' CR LF.
C19_DecodesLines ==
    (decoder.pending = <<>> /\ ~decoder.failed)
        => /\ decoder.out = ReferenceDecoding(DecoderInput, 1, 1).out
           /\ decoder.ended = ReferenceDecoding(DecoderInput, 1, 1).ended

\* Place i of data starts a line that consists of '.' alone.
LoneDotAt(data, i) ==
    StartsAt(data, i, EndMarker) /\ (i = 1 \/ data[i - 1] = LF)

\* C20: for every input in every chunking, the whole output of the encoder
\* ends with CR LF '.' CR LF, and the '.' of that end is its only line that
\* consists of '.' alone.
C20_EndsData ==
    (encoder.flushed /\ encoder.pending = <<>>)
        => /\ Len(encoder.out) >= 5
           /\ StartsAt(encoder.out, Len(encoder.out) - 4, <<CR, LF, DOT, CR, LF>>)
           /\ \A i \in 1..Len(encoder.out) :
                  LoneDotAt(encoder.out, i) => i = Len(encoder.out) - 2

\* C21: in the whole output of the encoder every CR is followed by LF and
\* every LF follows a CR, for every input in every chunking.
C21_LineEnds ==
    (encoder.flushed /\ encoder.pending = <<>>)
        => /\ ~BareIn(0, encoder.out)
           /\ encoder.out # <<>> /\ encoder.out[Len(encoder.out)] # CR

\* C22: a line that grows beyond maxLineLength before its terminator makes
\* the decoder fail with the oversize error.
C22_DecoderLimit ==
    decoder.failed => decoder.error = DecoderOversize

\* What the consumer of the transform stream t has read and would read now
\* in the chunks it still holds.
SeenByConsumer(t) == readPending(t).out

\* C40: a chunk the encoder or the decoder has emitted is not changed
\* afterwards: what a consumer finds in the chunks, whenever it reads them,
\* is what they held when they were emitted.
C40_ChunksKept ==
    /\ SeenByConsumer(encoder) = encoder.emitted
    /\ SeenByConsumer(decoder) = decoder.emitted

(***************************************************************************)
(* The synchronous functions of SMTPCmdLineParser (src/unnamed/part_001):  *)
(* parseCommandLine and serializeCommand.  A text is a sequence of words;  *)
(* a word is a piece of a line that the functions treat as a unit: a verb, *)
(* the prefix FROM: or TO:, a bracket, a letter, '=', a space, CR LF.  The *)
(* length of a text is the sum of the lengths of its words.                *)
(***************************************************************************)
CmdLineLimit == 12     \* a configured maxLineLength
MaxTokenWords == 4     \* words in the first argument of a command line

DefaultMaxLineLength == 512   \* this.maxLineLength

SP   == " "
CRLF == "\r\n"
White == {SP, CRLF}
ArgWords == {"FROM:", "TO:", "<", ">", "a"}

WordLength(w) ==
    CASE w \in {"MAIL", "RCPT", "EHLO"} -> 4
      [] w = "FROM:" -> 5
      [] w = "TO:" -> 3
      [] w = CRLF -> 2
      [] OTHER -> 1

RECURSIVE TextLength(_)
TextLength(t) ==
    IF t = <<>> THEN 0 ELSE WordLength(Head(t)) + TextLength(Tail(t))

\* String.prototype.trim
RECURSIVE trim(_)
trim(t) ==
    IF t # <<>> /\ Head(t) \in White THEN trim(Tail(t))
    ELSE IF t # <<>> /\ t[Len(t)] \in White THEN trim(SubSeq(t, 1, Len(t) - 1))
    ELSE t

\* t.split(/\s+/): the pieces of t between its runs of white space; the
\* text being collected is `part`.
RECURSIVE splitWhite(_, _)
splitWhite(t, part) ==
    IF t = <<>> THEN <<part>>
    ELSE IF Head(t) \in White
    THEN IF Len(t) > 1 /\ t[2] \in White THEN splitWhite(Tail(t), part)
         ELSE <<part>> \o splitWhite(Tail(t), <<>>)
    ELSE splitWhite(Tail(t), Append(part, Head(t)))

CmdLineOversize == "Command line exceeds size limit of %d octets."
CmdHasLineBreak == "Command lines cannot contain line breaks."
EhloNoDomain    == "EHLO command without domain or address literal."
MailNoPath      == "MAIL command without return path (FROM:<...>)."
MailBadPath     == "MAIL missing valid return path argument (FROM:<...>)."
RcptNoPath      == "RCPT command without forward path (TO:<...>)."
RcptBadPath     == "RCPT missing valid forward path argument (TO:<...>)."
RcptEmptyPath   == "RCPT with empty forward path argument (TO:<...>)."
NoVerb          == "Need an object with at least a property \"verb\" to construct a command line. { verb: ...}."
EhloNeedsDomain == "EHLO command needs a \"domain\" property with the domain or an address literal of the client."
RcptNeedsPath   == "RCPT command needs a \"forwardPath\" property with the address of the recipient."
SerializedOversize == "Serialized SMTP command exceeds maximum line length of %d octets."

CommandOf(verb, domain, returnPath, forwardPath, params) ==
    [verb |-> verb, domain |-> domain, returnPath |-> returnPath,
     forwardPath |-> forwardPath, params |-> params]

Failure(error) == [error |-> error, value |-> <<>>]
Success(value) == [error |-> "", value |-> value]

\* /FROM:(\S+)/.exec(token) and /TO:(\S+)/.exec(token): what follows the
\* leftmost prefix that is followed by something; <<>> when nothing matches.
pathMatch(token, prefix) ==
    LET at == {i \in 1..(Len(token) - 1) : token[i] = prefix} IN
    IF at = {} THEN <<>>
    ELSE LET i == CHOOSE i \in at : \A j \in at : i <= j
         IN  SubSeq(token, i + 1, Len(token))

\* The path of a MAIL or RCPT argument (lines 142-152, 160-170): brackets
\* are taken off when the path starts with '<' and ends with '>'.
pathOf(token, prefix, badPath) ==
    LET found == pathMatch(token, prefix) IN
    IF found = <<>> THEN Failure(badPath)
    ELSE IF Head(found) = "<"
    THEN IF found[Len(found)] # ">" THEN Failure(badPath)
         ELSE Success(SubSeq(found, 2, Len(found) - 1))
    ELSE Success(found)

\* /([^=]*)(?:=(.+))?/.exec(part): a parameter with a value, or a keyword.
paramOf(part) ==
    LET eq == {i \in 1..Len(part) : part[i] = "="} IN
    IF eq = {} THEN [key |-> part, value |-> Undefined]
    ELSE LET i == CHOOSE i \in eq : \A j \in eq : i <= j IN
         IF i = Len(part) THEN [key |-> part, value |-> Undefined]
         ELSE [key |-> SubSeq(part, 1, i - 1), value |-> Def(SubSeq(part, i + 1, Len(part)))]

paramsOf(parts) == [i \in 1..Len(parts) |-> paramOf(parts[i])]

\* parseCommandLine of a parser with the given maxLineLength.
parseCommandLineLenient(maxLineLength, line) ==
    LET parts == splitWhite(trim(line), <<>>) IN
    IF line = <<>> THEN Failure(CmdEmpty)
    ELSE Success(CommandOf(Head(parts), Undefined, Undefined, Undefined,
                           paramsOf(Tail(parts))))

parseCommandText(maxLineLength, line) ==
    LET trimmed == trim(line)
        parts == splitWhite(trimmed, <<>>)
        verb == Head(parts)
        rest == Tail(parts)
    IN  IF line = <<>> THEN Failure(CmdEmpty)
        ELSE IF TextLength(trimmed) > maxLineLength - 2 THEN Failure(CmdLineOversize)
        ELSE IF \E i \in 1..Len(trimmed) : trimmed[i] = CRLF THEN Failure(CmdHasLineBreak)
        ELSE IF verb = <<"EHLO">>
        THEN IF rest = <<>> THEN Failure(EhloNoDomain)
             ELSE Success(CommandOf(verb, Def(Head(rest)), Undefined, Undefined,
                                    paramsOf(Tail(rest))))
        ELSE IF verb = <<"MAIL">>
        THEN IF rest = <<>> THEN Failure(MailNoPath)
             ELSE LET path == pathOf(Head(rest), "FROM:", MailBadPath) IN
                  IF path.error # "" THEN path
                  ELSE Success(CommandOf(verb, Undefined, Def(path.value), Undefined,
                                         paramsOf(Tail(rest))))
        ELSE IF verb = <<"RCPT">>
        THEN IF rest = <<>> THEN Failure(RcptNoPath)
             ELSE LET path == pathOf(Head(rest), "TO:", RcptBadPath) IN
                  IF path.error # "" THEN path
                  ELSE IF path.value = <<>> THEN Failure(RcptEmptyPath)
                  ELSE Success(CommandOf(verb, Undefined, Undefined, Def(path.value),
                                         paramsOf(Tail(rest))))
        ELSE Success(CommandOf(verb, Undefined, Undefined, Undefined, paramsOf(rest)))

\* The text serializeCommand adds for the parameters (lines 246-263).
RECURSIVE paramsText(_)
paramsText(params) ==
    IF params = <<>> THEN <<>>
    ELSE LET param == Head(params) IN
         (IF param.value = Undefined THEN <<SP>> \o param.key
          ELSE <<SP>> \o param.key \o <<"=">> \o param.value[1])
         \o paramsText(Tail(params))

\* A string or undefined as a condition: '' and undefined are falsy.
Falsy(x) == x = Undefined \/ x[1] = <<>>
OrEmpty(x) == IF Falsy(x) THEN <<>> ELSE x[1]

serializeCommand(maxLineLength, cmd) ==
    LET head ==
            IF cmd.verb = <<"EHLO">> THEN cmd.verb \o <<SP>> \o OrEmpty(cmd.domain)
            ELSE IF cmd.verb = <<"MAIL">>
            THEN cmd.verb \o <<SP, "FROM:", "<">> \o OrEmpty(cmd.returnPath) \o <<">">>
            ELSE IF cmd.verb = <<"RCPT">>
            THEN cmd.verb \o <<SP, "TO:", "<">> \o OrEmpty(cmd.forwardPath) \o <<">">>
            ELSE cmd.verb
        commandLine == trim(head \o paramsText(cmd.params)) \o <<CRLF>>
    IN  IF cmd.verb = <<>> THEN Failure(NoVerb)
        ELSE IF cmd.verb = <<"EHLO">> /\ Falsy(cmd.domain) THEN Failure(EhloNeedsDomain)
        ELSE IF cmd.verb = <<"RCPT">> /\ Falsy(cmd.forwardPath) THEN Failure(RcptNeedsPath)
        ELSE IF TextLength(commandLine) > maxLineLength THEN Failure(SerializedOversize)
        ELSE Success(commandLine)

\* The command lines of the model: white space around a verb, a first
\* argument of up to MaxTokenWords words and a parameter.
Repeat(w, n) == [i \in 1..n |-> w]
CommandVerbs == {<<>>, <<"MAIL">>, <<"RCPT">>, <<"EHLO">>, <<"a">>}
FirstArguments == {<<>>} \cup UNION {[1..n -> ArgWords] : n \in 1..MaxTokenWords}
Parameters == {<<>>, <<"a">>, <<"a", "=", "a">>}
CommandLineOf(pad, verb, sep, arg, param) ==
    Repeat(SP, pad) \o verb
        \o (IF arg = <<>> THEN <<>> ELSE Repeat(SP, sep) \o arg)
        \o (IF param = <<>> THEN <<>> ELSE <<SP>> \o param)
        \o (IF pad = 0 THEN <<>> ELSE <<SP, CRLF>>)

NoResult == [error |-> "none", value |-> <<>>]

CommandInit ==
    /\ state = StateRecord("") /\ nListeners = [e \in Checkpoints |-> 0]
    /\ isTls = FALSE /\ cps = <<>> /\ proms = <<>> /\ socket = 0
    /\ connectPromise = 0 /\ needsDrain = FALSE /\ sending = FALSE
    /\ lastEvent = NoEvent /\ nTerminal = 0 /\ nClose = 0 /\ nStart = 0
    /\ nCommand = 0 /\ nRepeat = 0
    /\ clientTimeout = DefaultTimeout /\ parsers = <<>> /\ sockets = <<>>
    /\ lineParser = <<>> /\ inputStream = <<>>
    /\ encoder = <<>> /\ decoder = <<>> /\ dataPipe = <<>>
    /\ \E maxLineLength \in {CmdLineLimit, DefaultMaxLineLength},
          pad \in 0..1, verb \in CommandVerbs, sep \in 1..2,
          arg \in FirstArguments, param \in Parameters :
           cmdText = [maxLineLength |-> maxLineLength,
                      line |-> CommandLineOf(pad, verb, sep, arg, param),
                      parsed |-> NoResult, serialized |-> NoResult,
                      reparsed |-> NoResult]
    /\ replyText = <<>>
    /\ construction = <<>> /\ wire = <<>> /\ handshake = <<>>

CommandBecomes(c) ==
    /\ cmdText' = c
    /\ UNCHANGED <<sessionVars, clientVars, parserVars, dotVars, replyText, ioVars>>

\* command = parser.parseCommandLine(line)
ParseCommandLine ==
    /\ cmdText.parsed = NoResult
    /\ CommandBecomes([cmdText EXCEPT
           !.parsed = parseCommandText(cmdText.maxLineLength, cmdText.line)])

\* text = parser.serializeCommand(command)
SerializeCommand ==
    /\ cmdText.parsed.error = "" /\ cmdText.serialized = NoResult
    /\ CommandBecomes([cmdText EXCEPT
           !.serialized = serializeCommand(cmdText.maxLineLength, cmdText.parsed.value)])

\* parser.parseCommandLine(text)
ParseSerialized ==
    /\ cmdText.serialized.error = "" /\ cmdText.reparsed = NoResult
    /\ CommandBecomes([cmdText EXCEPT
           !.reparsed = parseCommandText(cmdText.maxLineLength, cmdText.serialized.value)])

CommandNext == ParseCommandLine \/ SerializeCommand \/ ParseSerialized

CommandSpec == CommandInit /\ [][CommandNext]_vars

Parsed == cmdText.parsed # NoResult
Accepted == Parsed /\ cmdText.parsed.error = ""
TrimmedLength == TextLength(trim(cmdText.line))

\* C23: for every line that parseCommandLine accepts, serializeCommand
\* succeeds on the Command, its result ends with CR LF, and parsing the
\* result again yields the same Command.
C23_CommandRoundTrip ==
    /\ (Accepted /\ cmdText.serialized # NoResult) =>
           /\ cmdText.serialized.error = ""
           /\ cmdText.serialized.value[Len(cmdText.serialized.value)] = CRLF
    /\ cmdText.reparsed # NoResult => cmdText.reparsed = cmdText.parsed

\* C24: parseCommandLine fails with the oversize error for every line whose
\* trimmed length is maxLineLength - 1 or more, and for no line whose
\* trimmed length is maxLineLength - 2 or less, whatever maxLineLength is.
C24_LengthLimit ==
    Parsed =>
        /\ TrimmedLength >= cmdText.maxLineLength - 1
               => cmdText.parsed.error = CmdLineOversize
        /\ TrimmedLength <= cmdText.maxLineLength - 2
               => cmdText.parsed.error # CmdLineOversize

\* A line of exactly maxLineLength - 2 characters, white space around it
\* not counted, was accepted.
C24_Witness ==
    /\ Accepted
    /\ TrimmedLength = cmdText.maxLineLength - 2
    /\ Len(cmdText.line) > Len(trim(cmdText.line))

\* A line of maxLineLength - 1 characters failed with the oversize error.
C24_OneLonger ==
    /\ Parsed /\ TrimmedLength = cmdText.maxLineLength - 1
    /\ cmdText.parsed.error = CmdLineOversize

\* C25: a line that is empty after trimming fails with the empty-input
\* error, and no Command has an empty verb.
C25_EmptyLine ==
    /\ (Parsed /\ trim(cmdText.line) = <<>>) => cmdText.parsed.error = CmdEmpty
    /\ Accepted => cmdText.parsed.value.verb # <<>>

\* The first argument of the command line: the second piece of the line.
FirstArgument ==
    LET parts == splitWhite(trim(cmdText.line), <<>>) IN
    IF Len(parts) >= 2 THEN parts[2] ELSE <<>>

\* The token is the prefix and a path, whose brackets are paired when the
\* path opens one.
PathToken(token, prefix) ==
    /\ Len(token) >= 2 /\ token[1] = prefix
    /\ token[2] = "<" => (Len(token) >= 3 /\ token[Len(token)] = ">")

\* C26: MAIL is accepted only with a first argument FROM:<path> and RCPT
\* only with TO:<path>, brackets optional but paired when opened; the path
\* of RCPT is not empty, and FROM:<> gives MAIL the return path ''.
C26_PathArgument ==
    /\ (Accepted /\ cmdText.parsed.value.verb = <<"MAIL">>)
           => /\ PathToken(FirstArgument, "FROM:")
              /\ FirstArgument = <<"FROM:", "<", ">">>
                     => cmdText.parsed.value.returnPath = Def(<<>>)
    /\ (Accepted /\ cmdText.parsed.value.verb = <<"RCPT">>)
           => /\ PathToken(FirstArgument, "TO:")
              /\ cmdText.parsed.value.forwardPath \notin {Undefined, Def(<<>>)}

\* ---------------------------------------------------------------------
\* The reply functions of SMTPReplyParser as pure functions: parseReplyLine
\* on one line of text, parseReply on an array of reply lines and
\* serializeReply on the reply it returns.  A text is a sequence of bytes.
\* ---------------------------------------------------------------------

MaxReplyTextLength == 5
MaxReplyLines == 3

ReplyChars == {Two, Zero, Dash, Space, Alpha}

RECURSIVE TextsUpTo(_, _)
TextsUpTo(chars, n) ==
    IF n = 0 THEN {<<>>}
    ELSE LET shorter == TextsUpTo(chars, n - 1) IN
         shorter \cup {Append(t, c) : t \in shorter, c \in chars}

ReplyTexts == TextsUpTo(ReplyChars, MaxReplyTextLength)

\* The reply lines an array handed to parseReply holds: two codes; no
\* message, a message, and a message that starts with a space, as
\* parseReplyLine returns for '250  a'.
ReplyCodes == {220, 250}
ReplyMessages == {<<>>, <<Alpha>>, <<Space, Alpha>>}
ReplyLines ==
    {[code |-> c, isLast |-> l, message |-> m] :
        c \in ReplyCodes, l \in BOOLEAN, m \in ReplyMessages}

RECURSIVE SeqsUpTo(_, _)
SeqsUpTo(S, n) ==
    IF n = 0 THEN {<<>>}
    ELSE LET shorter == SeqsUpTo(S, n - 1) IN
         shorter \cup {Append(q, e) : q \in shorter, e \in S}

\* String.prototype.trim on a text of bytes.
RECURSIVE trimLeft(_)
trimLeft(t) ==
    IF t # <<>> /\ Head(t) \in {CR, LF, Space} THEN trimLeft(Tail(t)) ELSE t

trimBytes(t) == trimLeft(trimRight(t))

\* The decimal digits of a number, as '' + number gives them.
RECURSIVE toString(_)
toString(n) ==
    IF n < 10 THEN <<Zero + n>>
    ELSE toString(n \div 10) \o <<Zero + (n % 10)>>

ReplyNoCode == "Input object needs to have a \"code\" property."
ReplyNoLines == "Input object needs to have an array as \"lines\" property with at least 1 line."
ReplySerializedOversize == "Number of input bytes exceeds line limit of %d octets."

RECURSIVE Concat(_)
Concat(texts) ==
    IF texts = <<>> THEN <<>> ELSE Head(texts) \o Concat(Tail(texts))

\* serializeReply of a parser with the given maxLineLength: the message
\* replaces the first line; every line is the code, '-' or ' ' on the last
\* line, the trimmed line and CR LF, and no longer than maxLineLength.
serializeReply(maxLineLength, reply) ==
    IF reply.code = 0 THEN [error |-> ReplyNoCode, value |-> <<>>]
    ELSE IF reply.lines = <<>> /\ reply.message = <<>>
    THEN [error |-> ReplyNoLines, value |-> <<>>]
    ELSE
    LET lines == IF reply.message # <<>>
                 THEN [i \in 1..(IF reply.lines = <<>> THEN 1 ELSE Len(reply.lines)) |->
                          IF i = 1 THEN reply.message ELSE reply.lines[i]]
                 ELSE reply.lines
        currentLine(idx) ==
            toString(reply.code)
                \o <<IF idx = Len(lines) THEN Space ELSE Dash>>
                \o trimBytes(lines[idx]) \o <<CR, LF>>
    IN  IF \E idx \in 1..Len(lines) : Len(currentLine(idx)) > maxLineLength
        THEN [error |-> ReplySerializedOversize, value |-> <<>>]
        ELSE [error |-> "",
              value |-> Concat([idx \in 1..Len(lines) |-> currentLine(idx)])]

NotParsed == NoReplyLine("none")

\* Either one line of text for parseReplyLine, or an array of reply lines
\* for parseReply.
ReplyInit ==
    /\ \/ \E input \in ReplyTexts :
             replyText = [mode |-> "line", input |-> input, line |-> NotParsed,
                          lines |-> <<>>, parsed |-> NoResult,
                          serialized |-> NoResult]
       \/ \E lines \in SeqsUpTo(ReplyLines, MaxReplyLines) :
             replyText = [mode |-> "reply", input |-> <<>>, line |-> NotParsed,
                          lines |-> lines, parsed |-> NoResult,
                          serialized |-> NoResult]
    /\ cmdText = <<>>
    /\ construction = <<>> /\ wire = <<>> /\ handshake = <<>>
    /\ state = StateRecord("") /\ nListeners = [e \in Checkpoints |-> 0]
    /\ isTls = FALSE /\ cps = <<>> /\ proms = <<>> /\ socket = 0
    /\ connectPromise = 0 /\ needsDrain = FALSE /\ sending = FALSE
    /\ lastEvent = NoEvent /\ nTerminal = 0 /\ nClose = 0 /\ nStart = 0
    /\ nCommand = 0 /\ nRepeat = 0
    /\ clientTimeout = DefaultTimeout /\ parsers = <<>> /\ sockets = <<>>
    /\ lineParser = <<>> /\ inputStream = <<>>
    /\ encoder = <<>> /\ decoder = <<>> /\ dataPipe = <<>>

ReplyBecomes(r) ==
    /\ replyText' = r
    /\ UNCHANGED <<sessionVars, clientVars, parserVars, dotVars, cmdText, ioVars>>

\* replyLine = parser.parseReplyLine(input)
ParseReplyLine ==
    /\ replyText.mode = "line" /\ replyText.line = NotParsed
    /\ ReplyBecomes([replyText EXCEPT !.line = parseReplyLine(replyText.input)])

\* reply = parser.parseReply(replyLines)
ParseReply ==
    /\ replyText.mode = "reply" /\ replyText.parsed = NoResult
    /\ ReplyBecomes([replyText EXCEPT !.parsed = parseReply(replyText.lines)])

\* text = parser.serializeReply(reply)
SerializeReply ==
    /\ replyText.parsed.error = "" /\ replyText.serialized = NoResult
    /\ ReplyBecomes([replyText EXCEPT
           !.serialized = serializeReply(DefaultMaxLineLength,
                                         replyText.parsed.value[1])])

ReplyNext == ParseReplyLine \/ ParseReply \/ SerializeReply

ReplySpec == ReplyInit /\ [][ReplyNext]_vars

\* The text starts with a three-digit code whose first digit is 2 to 5.
StartsWithCode(t) ==
    /\ Len(t) >= 3
    /\ t[1] \in Two..(Two + 3)
    /\ t[2] \in Zero..(Zero + 9) /\ t[3] \in Zero..(Zero + 9)

LineParsed == replyText.mode = "line" /\ replyText.line # NotParsed

\* C27: parseReplyLine accepts a line exactly when it is a three-digit code
\* with first digit 2 to 5, followed by nothing or by '-' or a space and a
\* message; any other character right after the code gives the invalid-line
\* error; isLast is false exactly when the separator is '-'.
C27_ReplyLine ==
    LineParsed =>
        LET t == trimRight(replyText.input)
            r == replyText.line
        IN  /\ r.error = "" <=>
                  (StartsWithCode(t) /\ (Len(t) = 3 \/ t[4] \in {Dash, Space}))
            /\ (StartsWithCode(t) /\ Len(t) >= 4 /\ t[4] \notin {Dash, Space})
                   => r.error = ReplyInvalid
            /\ r.error = "" => (r.isLast <=> ~(Len(t) >= 4 /\ t[4] = Dash))

ReplyParsed == replyText.mode = "reply" /\ replyText.parsed # NoResult

ReplyAccepted == ReplyParsed /\ replyText.parsed.error = ""

\* A last line stands before the final position.
EarlyLast(x) == \E i \in 1..(Len(x) - 1) : x[i].isLast

\* C28: parseReply on a line sequence succeeds exactly when the sequence is
\* not empty and its only last line is the final one; an early last line
\* gives the premature-end error and otherwise a final line that is not a
\* last line the unterminated error; the reply's lines are the messages of
\* the input lines in order, and its message is the first line's message.
C28_ParseReply ==
    ReplyParsed =>
        LET x == replyText.lines
            r == replyText.parsed
        IN  /\ r.error = "" <=>
                  (x # <<>> /\ \A i \in 1..Len(x) : x[i].isLast <=> i = Len(x))
            /\ EarlyLast(x) => r.error = "Premature end of multiline reply."
            /\ (x # <<>> /\ ~EarlyLast(x) /\ ~x[Len(x)].isLast)
                   => r.error = "Unterminated multiline reply."
            /\ r.error = "" =>
                  /\ Len(r.value[1].lines) = Len(x)
                  /\ \A i \in 1..Len(x) : r.value[1].lines[i] = x[i].message
                  /\ r.value[1].message = x[1].message

\* A reply of MaxReplyLines lines with different messages was accepted.
C28_Witness ==
    /\ ReplyAccepted
    /\ Len(replyText.lines) = MaxReplyLines
    /\ replyText.lines[1].message # replyText.lines[2].message
    /\ replyText.parsed.value[1].lines[2] = <<Space, Alpha>>

\* C29: every line of a line sequence that parseReply turns into a reply
\* carries the code of the reply: lines with different codes give no reply.
C29_OneCode ==
    ReplyAccepted =>
        \A i \in 1..Len(replyText.lines) :
            replyText.lines[i].code = replyText.parsed.value[1].code

\* The lines form one multi-line reply: one code, the last line at the end.
Consistent(x) ==
    /\ x # <<>>
    /\ \A i \in 1..Len(x) : x[i].code = x[1].code /\ (x[i].isLast <=> i = Len(x))

\* The lines as text: code, '-' or on the last line ' ', message, CR LF.
Rendered(x) ==
    Concat([i \in 1..Len(x) |->
               toString(x[i].code)
                   \o <<IF i = Len(x) THEN Space ELSE Dash>>
                   \o x[i].message \o <<CR, LF>>])

\* C30: serializeReply(parseReply(x)) renders the lines of a consistent
\* line sequence x: the same code on every line, the same messages in the
\* same order, '-' after the code on all but the last line, ' ' on the last.
C30_SerializeReply ==
    (replyText.mode = "reply" /\ Consistent(replyText.lines)
         /\ replyText.serialized # NoResult)
        => /\ replyText.serialized.error = ""
           /\ replyText.serialized.value = Rendered(replyText.lines)

\* C36: the continuation of a checkpoint has been invoked only when every
\* observer registered for it has been invoked and has called back, none
\* with an error, also when an observer calls its callback more than once.
C36_ProceedAfterAll ==
    \A c \in CheckpointIds :
        cps[c].proceeded > 0 =>
            /\ Len(cps[c].invoked) = cps[c].n
            /\ \A k \in 1..cps[c].n : cps[c].cbs[k] >= 1

\* The same for observers that each call back at most once.
C36_WithoutRepeats ==
    \A c \in CheckpointIds :
        (cps[c].proceeded > 0 /\ \A k \in 1..cps[c].n : cps[c].cbs[k] <= 1) =>
            /\ Len(cps[c].invoked) = cps[c].n
            /\ \A k \in 1..cps[c].n : cps[c].cbs[k] >= 1

\* C37: while the session is ended and start() is not called again, no step
\* calls client.connect() or client.command(): no promise is added and no
\* checkpoint makes its call.
C37_QuietWhenEnded ==
    [][(Truthy(state.ended) /\ nStart' = nStart)
       => /\ Len(proms') = Len(proms)
          /\ \A c \in CheckpointIds : cps'[c].called = cps[c].called]_vars

\* The same for the steps of checkpoints alone: an ended session does not
\* proceed when the observers of a checkpoint complete.
C37_CheckpointsOnly ==
    [][(Truthy(state.ended) /\ nStart' = nStart)
       => \A c \in CheckpointIds : cps'[c].called = cps[c].called]_vars

(***************************************************************************)
(* The constructor of the session and the connect call of start()          *)
(* (src/src/client/session.js, lines 70-130 and 181-215).  A URI is what   *)
(* URI.js holds of it: the scheme as it was written, the hostname and the  *)
(* port as text, '' when the URI names none.                               *)
(***************************************************************************)
MaxPortLength == 3

Ex == 120   \* 'x'

Schemes == {"", "smtp", "smtps", "smtp+starttls", "http", "SMTP", "SMTPS"}
Hostnames == {"", "localhost"}
PortChars == {Zero, Two, Dash, Ex}
Ports == TextsUpTo(PortChars, MaxPortLength)

\* String.prototype.toLowerCase on a scheme.
toLowerCase(str) ==
    CASE str = "SMTP" -> "smtp"
      [] str = "SMTPS" -> "smtps"
      [] OTHER -> str

\* The digits a text starts with.
RECURSIVE leadingDigits(_)
leadingDigits(text) ==
    IF text # <<>> /\ IsDigit(Head(text))
    THEN <<Head(text)>> \o leadingDigits(Tail(text))
    ELSE <<>>

RECURSIVE decimal(_)
decimal(digits) ==
    IF digits = <<>> THEN 0
    ELSE 10 * decimal(SubSeq(digits, 1, Len(digits) - 1)) + (digits[Len(digits)] - Zero)

\* parseInt of a text: an optional '-', then the digits up to the first
\* other character; NaN without a digit.
parseIntOf(text) ==
    LET negative == text # <<>> /\ Head(text) = Dash
        digits == leadingDigits(IF negative THEN Tail(text) ELSE text)
    IN  IF digits = <<>> THEN [nan |-> TRUE, value |-> 0]
        ELSE [nan |-> FALSE,
              value |-> IF negative THEN 0 - decimal(digits) ELSE decimal(digits)]

SmtpsPort == <<Zero + 5, Zero + 8, Zero + 7>>
SmtpPort == <<Two, Zero + 5>>

\* new SMTPClientSession(uri, {tls: tls})
SMTPClientSession(uri, tls) ==
    IF uri = Undefined THEN Failure("Parameter #1 (uri) is missing")
    ELSE LET protocol == toLowerCase(uri[1].protocol) IN
         IF protocol = "" THEN Failure("Only absolute URI are supported.")
         ELSE IF protocol # "smtp" /\ toLowerCase(protocol) # "smtps"
                 /\ protocol # "smtp+starttls"
         THEN Failure("Unsupported URI scheme (need \"smtp\" or \"smtps\"): ")
         ELSE IF uri[1].hostname = "" THEN Failure("Hostname is empty in URI: ")
         ELSE LET thisUri == IF uri[1].port = <<>>
                             THEN [uri[1] EXCEPT !.port = IF protocol = "smtps"
                                                          THEN SmtpsPort ELSE SmtpPort]
                             ELSE uri[1]
                  port == parseIntOf(thisUri.port)
              IN  IF port.nan \/ port.value <= 0
                  THEN Failure("Unparseable port in URI: ")
                  ELSE Success([uri |-> thisUri, options |-> [tls |-> tls],
                                state |-> StateRecord("")])

\* start() of a session without observers of 'connect', up to the call of
\* client.connect(hostname, port, {tls: tlsOpts}), and the transport that
\* connect() chooses (client.js:55, :79-83).
startConnect(session) ==
    LET port == parseIntOf(session.uri.port).value
        tls == session.uri.protocol = "smtps"
        tlsOpts == IF tls /\ session.options.tls # Undefined THEN session.options.tls
                   ELSE IF tls THEN Def("{}")
                   ELSE Undefined
    IN  [hostname |-> session.uri.hostname, port |-> session.uri.port,
         statePort |-> port, isTls |-> tls, tlsOpts |-> tlsOpts,
         transport |-> IF tlsOpts = Undefined THEN "net" ELSE "tls"]

NotStarted == [transport |-> "none"]

ConstructionInit ==
    /\ state = StateRecord("") /\ nListeners = [e \in Checkpoints |-> 0]
    /\ isTls = FALSE /\ cps = <<>> /\ proms = <<>> /\ socket = 0
    /\ connectPromise = 0 /\ needsDrain = FALSE /\ sending = FALSE
    /\ lastEvent = NoEvent /\ nTerminal = 0 /\ nClose = 0 /\ nStart = 0
    /\ nCommand = 0 /\ nRepeat = 0
    /\ clientTimeout = DefaultTimeout /\ parsers = <<>> /\ sockets = <<>>
    /\ lineParser = <<>> /\ inputStream = <<>>
    /\ encoder = <<>> /\ decoder = <<>> /\ dataPipe = <<>>
    /\ cmdText = <<>> /\ replyText = <<>>
    /\ wire = <<>> /\ handshake = <<>>
    /\ \E uri \in {Undefined} \cup
                  {Def([protocol |-> sch, hostname |-> h, port |-> prt]) :
                      sch \in Schemes, h \in Hostnames, prt \in Ports},
          tls \in {Undefined, Def("options.tls")} :
           construction = [uri |-> uri, tls |-> tls, built |-> NoResult,
                           started |-> NotStarted]

ConstructionBecomes(c) ==
    /\ construction' = c
    /\ UNCHANGED <<sessionVars, clientVars, parserVars, dotVars, textVars,
                   wire, handshake>>

\* session = new SMTPClientSession(uri, options)
Construct ==
    /\ construction.built = NoResult
    /\ ConstructionBecomes([construction EXCEPT
           !.built = SMTPClientSession(construction.uri, construction.tls)])

\* session.start()
StartSession ==
    /\ construction.built.error = "" /\ construction.started = NotStarted
    /\ ConstructionBecomes([construction EXCEPT
           !.started = startConnect(construction.built.value)])

ConstructionNext == Construct \/ StartSession

ConstructionSpec == ConstructionInit /\ [][ConstructionNext]_vars

Built == construction.built # NoResult

Created == Built /\ construction.built.error = ""

\* The scheme of the URI, whatever its case.
SchemeOf(uri) == toLowerCase(uri[1].protocol)

\* C31: the constructor gives a URI without port the port 25 for smtp and
\* smtp+starttls and 587 for smtps; start() connects with TLS exactly for
\* smtps; no session is created for a missing URI, a URI without scheme, an
\* unsupported scheme, an empty hostname, and a port that parseInt cannot
\* read or that is not positive.
C31_Constructor ==
    /\ (Created /\ construction.uri[1].port = <<>>)
           => construction.built.value.uri.port =
                  IF SchemeOf(construction.uri) = "smtps" THEN SmtpsPort ELSE SmtpPort
    /\ construction.started # NotStarted
           => (construction.started.transport = "tls"
                   <=> SchemeOf(construction.uri) = "smtps")
    /\ Built =>
           (Created <=>
               /\ construction.uri # Undefined
               /\ SchemeOf(construction.uri) \in {"smtp", "smtps", "smtp+starttls"}
               /\ construction.uri[1].hostname # ""
               /\ \/ construction.uri[1].port = <<>>
                  \/ (/\ ~parseIntOf(construction.uri[1].port).nan
                      /\ parseIntOf(construction.uri[1].port).value > 0))

\* The same for the URIs whose scheme is written in lower case.
C31_LowerCaseSchemes ==
    (construction.uri # Undefined
         /\ construction.uri[1].protocol = SchemeOf(construction.uri))
        => C31_Constructor

(***************************************************************************)
(* The writes of a connected client (src/src/client.js): command(), data() *)
(* and _write() on a socket whose greeting has been read.  A write is a    *)
(* call of _write: "refused" when the guard of line 144 rejected it,       *)
(* "tick" while _doWrite waits in process.nextTick, "socket" from          *)
(* socket.write() to the call of its callback, then "done".  The socket    *)
(* is a stream.Writable: it calls the callbacks in the order of the        *)
(* writes, and when the last write it holds completes after a write has    *)
(* returned false it emits 'drain' before it calls the callback.  The      *)
(* server answers every command, and the end of the data, after it was     *)
(* written to the socket, in that order; every reader that listens on the  *)
(* socket receives every reply.  The encoder counts the chunks it emits.   *)
(***************************************************************************)
MaxWireCommands == 2
MaxWireChunks == 3

ChunkWriteTimeout == 180000

Write(kind, id, st, timeout) ==
    [kind |-> kind, id |-> id, st |-> st,
     timer |-> IF st = "tick" /\ timeout > 0 THEN "armed" ELSE "none"]

\* A reader: the reply parser of command() or of data(); what is the write
\* whose reply it waits for (0: the end of the data), got the write whose
\* reply it received.
Reader(what) == [what |-> what, st |-> "listening", got |-> 0]

\* SMTPClient.prototype._write, up to the return of its promise.
clientWrite(c, kind, id, timeout) ==
    IF c.needsDrain \/ c.sending
    THEN [c EXCEPT !.writes = Append(@, Write(kind, id, "refused", 0))]
    ELSE [c EXCEPT !.writes = Append(@, Write(kind, id, "tick", timeout))]

\* SMTPClient.prototype.command of a connected client: the reply parser is
\* attached to the socket, then _write is called.
wireCommand(c) ==
    clientWrite([c EXCEPT !.readers = Append(@, Reader(Len(c.writes) + 1))],
                "command", 0, 0)

\* SMTPClient.prototype.data with a buffer that the encoder turns into n
\* chunks: the encoder gets its listeners and starts to flow.
wireData(c, n) ==
    [c EXCEPT !.encoder = [n |-> n, emitted |-> 0, paused |-> FALSE, ended |-> FALSE],
              !.transfer = [st |-> "pending", reason |-> ""]]

\* reject(error) of the promise of data().
rejectTransfer(c, reason) ==
    IF c.transfer.st = "pending"
    THEN [c EXCEPT !.transfer = [st |-> "rejected", reason |-> reason]]
    ELSE c

\* The 'data' listener of data() without encoder.pause().
encoderOnDataUnpaused(c) ==
    LET c1 == [c EXCEPT !.encoder.emitted = @ + 1]
        c2 == clientWrite(c1, "chunk", c1.encoder.emitted, ChunkWriteTimeout)
    IN  IF c2.writes[Len(c2.writes)].st = "refused"
        THEN rejectTransfer(c2, "refused") ELSE c2

\* The 'data' listener of data(): the encoder is paused and the chunk
\* handed to _write; when _write rejects, the promise of data() is
\* rejected.
encoderOnData(c) ==
    LET c1 == [c EXCEPT !.encoder.paused = TRUE, !.encoder.emitted = @ + 1]
        c2 == clientWrite(c1, "chunk", c1.encoder.emitted, ChunkWriteTimeout)
    IN  IF c2.writes[Len(c2.writes)].st = "refused"
        THEN rejectTransfer(c2, "refused") ELSE c2

\* The 'end' listener of data(): a reply parser is attached to the socket.
encoderOnEnd(c) ==
    [c EXCEPT !.encoder.ended = TRUE, !.readers = Append(@, Reader(0))]

\* _doWrite of write i: socket.write() returns flushed.  signalled is
\* history: a write has returned false.
clientDoWrite(c, i, flushed) ==
    [c EXCEPT !.writes[i].st = "socket",
              !.sent = Append(@, i),
              !.needsDrain = ~flushed,
              !.socketNeedsDrain = @ \/ ~flushed,
              !.signalled = @ \/ ~flushed]

\* The writes the socket holds.
InSocket(c) == {i \in 1..Len(c.writes) : c.writes[i].st = "socket"}

\* The socket completes write i: 'drain' when it holds no other write and
\* has returned false, then the callback of the write: the timer is
\* cleared and the promise resolved, which resumes the encoder for a chunk
\* whose promise was not rejected by its timer.
writeCallback(c, i) ==
    LET drained == InSocket(c) = {i} /\ c.socketNeedsDrain
        c1 == [c EXCEPT !.needsDrain = IF drained THEN FALSE ELSE @,
                        !.socketNeedsDrain = IF drained THEN FALSE ELSE @,
                        !.sending = FALSE,
                        !.writes[i].st = "done",
                        !.writes[i].timer = IF @ = "armed" THEN "cleared" ELSE @]
    IN  IF c.writes[i].kind = "chunk" /\ c.writes[i].timer # "fired"
        THEN [c1 EXCEPT !.encoder.paused = FALSE]
        ELSE c1

\* _onTimeout of write i: its promise is rejected, and with it the promise
\* of data().
writeOnTimeout(c, i) ==
    rejectTransfer([c EXCEPT !.writes[i].timer = "fired"], "timeout")

\* The writes the server answers, in the order they were written: the
\* commands, and the last chunk of the data.
RECURSIVE Answered(_, _)
Answered(c, sent) ==
    IF sent = <<>> THEN <<>>
    ELSE LET i == Head(sent) IN
         (IF c.writes[i].kind = "command" \/ c.writes[i].id = c.encoder.n
          THEN <<i>> ELSE <<>>) \o Answered(c, Tail(sent))

\* The reader that waits for the reply to write i.
ReaderOf(c, i) ==
    {r \in 1..Len(c.readers) :
        c.readers[r].what = IF c.writes[i].kind = "command" THEN i ELSE 0}

\* A 'data' event of the socket with the reply to write i: every reader
\* that listens resolves with it.  lost is history: the replies to
\* commands that came when the reader of the command did not listen.
socketOnReply(c, i) ==
    LET listening == {r \in 1..Len(c.readers) : c.readers[r].st = "listening"}
    IN  [c EXCEPT !.readers = [r \in 1..Len(c.readers) |->
                                  IF r \in listening
                                  THEN [c.readers[r] EXCEPT !.st = "resolved", !.got = i]
                                  ELSE c.readers[r]],
                  !.replies = @ + 1,
                  !.lost = IF c.writes[i].kind = "command"
                                /\ ReaderOf(c, i) \cap listening = {}
                           THEN @ + 1 ELSE @,
                  !.transfer = IF \E r \in listening : c.readers[r].what = 0
                               THEN IF c.transfer.st = "pending"
                                    THEN [st |-> "resolved", reason |-> ""] ELSE @
                               ELSE @]

WireInit ==
    /\ state = StateRecord("") /\ nListeners = [e \in Checkpoints |-> 0]
    /\ isTls = FALSE /\ cps = <<>> /\ proms = <<>> /\ socket = 0
    /\ connectPromise = 0 /\ needsDrain = FALSE /\ sending = FALSE
    /\ lastEvent = NoEvent /\ nTerminal = 0 /\ nClose = 0 /\ nStart = 0
    /\ nCommand = 0 /\ nRepeat = 0
    /\ clientTimeout = DefaultTimeout /\ parsers = <<>> /\ sockets = <<>>
    /\ lineParser = <<>> /\ inputStream = <<>>
    /\ encoder = <<>> /\ decoder = <<>> /\ dataPipe = <<>>
    /\ cmdText = <<>> /\ replyText = <<>>
    /\ construction = <<>> /\ handshake = <<>>
    /\ wire = [needsDrain |-> FALSE, sending |-> FALSE, socketNeedsDrain |-> FALSE,
               signalled |-> FALSE,
               writes |-> <<>>, sent |-> <<>>, readers |-> <<>>,
               replies |-> 0, lost |-> 0,
               encoder |-> [n |-> 0, emitted |-> 0, paused |-> FALSE, ended |-> FALSE],
               transfer |-> [st |-> "none", reason |-> ""]]

WireBecomes(c) ==
    /\ wire' = c
    /\ UNCHANGED <<sessionVars, clientVars, parserVars, dotVars, textVars,
                   construction, handshake>>

\* Callbacks of process.nextTick run before any event of the socket, of
\* the encoder or of a timer.
WireTickPending == \E i \in 1..Len(wire.writes) : wire.writes[i].st = "tick"

\* client.command(command)
WireCommand ==
    /\ Cardinality({i \in 1..Len(wire.writes) : wire.writes[i].kind = "command"})
           < MaxWireCommands
    /\ WireBecomes(wireCommand(wire))

\* client.data(buffer)
WireData ==
    \E n \in 1..MaxWireChunks :
        /\ wire.transfer.st = "none"
        /\ WireBecomes(wireData(wire, n))

\* The encoder emits 'data' with its next chunk.
EncoderData ==
    /\ wire.transfer.st # "none"
    /\ ~wire.encoder.paused
    /\ wire.encoder.emitted < wire.encoder.n
    /\ WireBecomes(encoderOnData(wire))

\* The encoder emits 'end' when its last chunk has been read.
EncoderEnded ==
    /\ wire.transfer.st # "none"
    /\ wire.encoder.emitted = wire.encoder.n /\ ~wire.encoder.ended
    /\ WireBecomes(encoderOnEnd(wire))

\* process.nextTick runs the _doWrite that has waited longest.
WireDoWrite ==
    \E i \in 1..Len(wire.writes), flushed \in BOOLEAN :
        /\ wire.writes[i].st = "tick"
        /\ \A j \in 1..(i - 1) : wire.writes[j].st # "tick"
        /\ WireBecomes(clientDoWrite(wire, i, flushed))

\* The socket has written the oldest write it holds.
WriteCompletes ==
    \E i \in InSocket(wire) :
        /\ ~WireTickPending
        /\ \A j \in InSocket(wire) : i <= j
        /\ WireBecomes(writeCallback(wire, i))

\* The timer of a write fires.
WriteTimeout ==
    \E i \in InSocket(wire) :
        /\ ~WireTickPending
        /\ wire.writes[i].timer = "armed"
        /\ WireBecomes(writeOnTimeout(wire, i))

\* The reply to the next write the server has not answered arrives.
WireReply ==
    /\ ~WireTickPending
    /\ wire.replies < Len(Answered(wire, wire.sent))
    /\ WireBecomes(socketOnReply(wire, Answered(wire, wire.sent)[wire.replies + 1]))

WireNext ==
    \/ WireCommand
    \/ WireData
    \/ EncoderData
    \/ EncoderEnded
    \/ WireDoWrite
    \/ WriteCompletes
    \/ WriteTimeout
    \/ WireReply

WireSpec == WireInit /\ [][WireNext]_vars

\* The writes of kind k that have been requested and not completed.
OutstandingWrites(k) ==
    {i \in 1..Len(wire.writes) :
        wire.writes[i].kind = k /\ wire.writes[i].st \in {"tick", "socket"}}

OnlyData == \A i \in 1..Len(wire.writes) : wire.writes[i].kind = "chunk"

\* The chunks in the order the socket received them.
RECURSIVE ChunksOf(_)
ChunksOf(sent) ==
    IF sent = <<>> THEN <<>>
    ELSE (IF wire.writes[Head(sent)].kind = "chunk"
          THEN <<wire.writes[Head(sent)].id>> ELSE <<>>) \o ChunksOf(Tail(sent))

C34_WithCommands == wire.transfer.reason # "refused"

\* C35: at most one write is in the socket at any time, and no write is
\* passed to the socket while a write that returned false has not drained.
C35_OneWriteInFlight ==
    /\ Cardinality(InSocket(wire)) <= 1
    /\ [][Len(wire'.sent) > Len(wire.sent) => ~wire.socketNeedsDrain]_vars

C35_InFlight == Cardinality(InSocket(wire)) <= 1

\* C38: every reply reaches the reader of the command it answers: a reader
\* resolves with the reply to its own write, and no reply arrives while
\* the reader of its write does not listen.
C38_OwnReply ==
    /\ \A r \in 1..Len(wire.readers) :
           wire.readers[r].st = "resolved" /\ wire.readers[r].what # 0
               => wire.readers[r].got = wire.readers[r].what
    /\ wire.lost = 0

\* The same for a client that has called command() once and nothing else:
\* the reply reaches the reader whether it comes before or after the
\* callback of the write.
C38_OneCommand ==
    Len(wire.writes) = 1 /\ wire.transfer.st = "none"
        => /\ wire.lost = 0
           /\ wire.readers[1].st = "resolved" => wire.readers[1].got = 1

C38_RepliedBeforeCallback ==
    /\ Len(wire.writes) = 1 /\ wire.transfer.st = "none"
    /\ wire.readers[1].st = "resolved" /\ wire.writes[1].st = "socket"

(***************************************************************************)
(* SMTPClient.prototype.upgrade (src/src/client.js:237-273) of a connected *)
(* client.  Sockets are numbered: 0 is the plain socket of connect(), the  *)
(* TLS socket of the u-th call of upgrade() is u.  A TLS socket is         *)
(* "handshaking" until its handshake completes ("secure") or fails         *)
(* ("failed"); a timer of upgrade() does not stop the handshake.           *)
(***************************************************************************)
MaxUpgrades == 3

\* upgrade(options): tls.connect() over this.socket, the listener of
\* 'error' and, for a timeout that is not 0, the timer.
clientUpgrade(c, timeout) ==
    [c EXCEPT !.upgrades = Append(@,
        [st |-> "pending", tls |-> "handshaking", over |-> c.socket,
         onError |-> TRUE,
         timer |-> IF timeout # 0 THEN "armed" ELSE "none"])]

\* reject(error) or resolve(tlsSocket) of the promise of upgrade u.
settleUpgrade(c, u, st) ==
    IF c.upgrades[u].st = "pending" THEN [c EXCEPT !.upgrades[u].st = st] ELSE c

\* The callback of tls.connect() of upgrade u: the timer is cleared, the
\* listener of 'error' removed, the listeners of the client moved to the
\* TLS socket, this.socket and this.secure assigned, the promise resolved.
onSecureConnect(c, u) ==
    settleUpgrade([c EXCEPT !.upgrades[u].tls = "secure",
                            !.upgrades[u].onError = FALSE,
                            !.upgrades[u].timer = IF @ = "armed" THEN "cleared" ELSE @,
                            !.listenersOn = u,
                            !.socket = u,
                            !.secure = TRUE],
                  u, "resolved")

\* 'error' of the TLS socket of upgrade u: _onError when it still listens,
\* otherwise the event has no listener and is thrown.
onHandshakeError(c, u) ==
    IF c.upgrades[u].onError
    THEN settleUpgrade([c EXCEPT !.upgrades[u].tls = "failed",
                                 !.upgrades[u].onError = FALSE,
                                 !.upgrades[u].timer = IF @ = "armed" THEN "cleared" ELSE @],
                       u, "rejected")
    ELSE [c EXCEPT !.upgrades[u].tls = "failed", !.uncaught = @ + 1]

\* _onTimeout of upgrade u.
upgradeOnTimeout(c, u) ==
    settleUpgrade([c EXCEPT !.upgrades[u].timer = "fired",
                            !.upgrades[u].onError = FALSE],
                  u, "rejected")

HandshakeInit ==
    /\ state = StateRecord("") /\ nListeners = [e \in Checkpoints |-> 0]
    /\ isTls = FALSE /\ cps = <<>> /\ proms = <<>> /\ socket = 0
    /\ connectPromise = 0 /\ needsDrain = FALSE /\ sending = FALSE
    /\ lastEvent = NoEvent /\ nTerminal = 0 /\ nClose = 0 /\ nStart = 0
    /\ nCommand = 0 /\ nRepeat = 0
    /\ clientTimeout = DefaultTimeout /\ parsers = <<>> /\ sockets = <<>>
    /\ lineParser = <<>> /\ inputStream = <<>>
    /\ encoder = <<>> /\ decoder = <<>> /\ dataPipe = <<>>
    /\ cmdText = <<>> /\ replyText = <<>>
    /\ construction = <<>> /\ wire = <<>>
    /\ handshake = [socket |-> 0, secure |-> FALSE,
                    listenersOn |-> 0, upgrades |-> <<>>, uncaught |-> 0]

HandshakeBecomes(c) ==
    /\ handshake' = c
    /\ UNCHANGED <<sessionVars, clientVars, parserVars, dotVars, textVars,
                   construction, wire>>

\* client.upgrade(options)
Upgrade ==
    \E timeout \in {0, DefaultTimeout} :
        /\ Len(handshake.upgrades) < MaxUpgrades
        /\ HandshakeBecomes(clientUpgrade(handshake, timeout))

\* The TLS handshake of an upgrade completes.
SecureConnect ==
    \E u \in 1..Len(handshake.upgrades) :
        /\ handshake.upgrades[u].tls = "handshaking"
        /\ HandshakeBecomes(onSecureConnect(handshake, u))

\* The TLS handshake of an upgrade fails.
HandshakeError ==
    \E u \in 1..Len(handshake.upgrades) :
        /\ handshake.upgrades[u].tls = "handshaking"
        /\ HandshakeBecomes(onHandshakeError(handshake, u))

\* The timer of an upgrade fires.
UpgradeTimeout ==
    \E u \in 1..Len(handshake.upgrades) :
        /\ handshake.upgrades[u].timer = "armed"
        /\ HandshakeBecomes(upgradeOnTimeout(handshake, u))

HandshakeNext ==
    \/ Upgrade
    \/ SecureConnect
    \/ HandshakeError
    \/ UpgradeTimeout

HandshakeSpec == HandshakeInit /\ [][HandshakeNext]_vars

\* C39: the step that rejects the promise of an upgrade, and every later
\* step of the handshake of an upgrade whose promise is rejected, leaves
\* the socket and the secure flag of the client as they were.
C39_RejectedUnchanged ==
    [][\A u \in 1..Len(handshake.upgrades) :
          (/\ handshake'.upgrades[u].st = "rejected"
           /\ handshake'.upgrades[u] # handshake.upgrades[u])
              => /\ handshake'.socket = handshake.socket
                 /\ handshake'.secure = handshake.secure]_vars

\* The same for a handshake error alone.
C39_ErrorUnchanged ==
    [][\A u \in 1..Len(handshake.upgrades) :
          (/\ handshake'.upgrades[u].st = "rejected"
           /\ handshake'.upgrades[u].tls = "failed"
           /\ handshake'.upgrades[u] # handshake.upgrades[u])
              => /\ handshake'.socket = handshake.socket
                 /\ handshake'.secure = handshake.secure]_vars

====
